---------------------------- MODULE Spec2Model ----------------------------
(***************************************************************************)
(* Model of altruct's dense polynomial arithmetic, polynom<T>, for T = int *)
(* (include/altruct/structure/math/polynom.h).                             *)
(*                                                                         *)
(* A polynom instance is its coefficient vector `c`, a sequence of         *)
(* integers; C++ index i is TLA+ index i + 1.  For T = int the contextual  *)
(* zero ZERO_COEFF is 0 and id_coeff() is 1 in every instance.             *)
(*                                                                         *)
(* Operations that take polynom& / T* arguments run on a store             *)
(*      [m |-> <<c_1, ..., c_k>>, ub |-> BOOLEAN, divs |-> Nat]                          *)
(* of instances, an argument being the index of an instance in m (a raw    *)
(* pointer T* is <<instance, offset>>), so that an output that is the same *)
(* instance as an input is really the same storage.  ub records that the   *)
(* run divided an int by zero, which is undefined behaviour.               *)
(***************************************************************************)
EXTENDS Integers, Sequences, FiniteSets, TLC

VARIABLES
    op,     \* the operation that produced this state
    x,      \* first operand (coefficients before the operation)
    y,      \* second operand
    n,      \* integer argument of the operation (index, size, lr, L)
    alias,  \* which input instance the output instance pr is
    res,    \* coefficients of the output instance after the operation
    aux,    \* coefficients of a second result (the remainder next to the quotient)
    val,    \* the T value an accessor returned or was given
    ub      \* the operation ran into undefined behaviour

vars == <<op, x, y, n, alias, res, aux, val, ub>>

---------------------------------------------------------------------------
(* Bounds of the model.                                                    *)

\* longest coefficient vector of the first operand
MaxLen == 3
\* longest coefficient vector of the second operand
MaxLenY == 2
\* coefficients are drawn from -1 .. MaxCoef
MaxCoef == 1
\* largest storage of the instance in the life-cycle specification
MaxSize == 3
\* largest explicit result degree lr given to mul
MaxLr == 3
\* largest bound L given to inverse
MaxL == 4

Coeffs == (-1) .. MaxCoef

\* all coefficient vectors of length <= k over Coeffs
Vecs(k) == UNION {[1 .. l -> Coeffs] : l \in 0 .. k}

Max(a, b) == IF a >= b THEN a ELSE b
Min(a, b) == IF a <= b THEN a ELSE b

---------------------------------------------------------------------------
(* polynom<int>: storage and accessors.                                    *)

ZERO_COEFF == 0

id_coeff == 1

size(c) == Len(c)

\* std::vector<T>(k, ZERO_COEFF) and std::vector<T>(k), T() being 0
RECURSIVE vector_fill(_)
vector_fill(k) == IF k <= 0 THEN <<>> ELSE Append(vector_fill(k - 1), ZERO_COEFF)

\* std::vector<T>::resize(sz, ZERO_COEFF)
vector_resize(c, sz) ==
    IF sz <= Len(c) THEN SubSeq(c, 1, sz)
    ELSE c \o vector_fill(sz - Len(c))

reserve(c, sz) == IF sz > size(c) THEN vector_resize(c, sz) ELSE c

\* a resize that only ever grows the storage
resize_growing(c, sz) == IF sz > size(c) THEN vector_resize(c, sz) ELSE c

resize(c, sz) == IF sz # size(c) THEN vector_resize(c, sz) ELSE c

\* a read that clamps the index into the storage
at_clamped(c, index) ==
    IF Len(c) = 0 THEN ZERO_COEFF
    ELSE c[Max(0, Min(index, Len(c) - 1)) + 1]

at(c, index) ==
    IF 0 <= index /\ index < size(c) THEN c[index + 1] ELSE ZERO_COEFF

\* T& operator[](int index), followed by the assignment of v through it
index_write(c, index, v) ==
    [reserve(c, index + 1) EXCEPT ![index + 1] = v]

RECURSIVE deg_scan(_, _)
deg_scan(c, i) ==
    IF i > 0
    THEN IF ~(c[i + 1] = ZERO_COEFF) THEN i ELSE deg_scan(c, i - 1)
    ELSE 0

\* the top index of the storage, zero coefficients not skipped
deg_no_skip(c) == Max(size(c) - 1, 0)

deg(c) == deg_scan(c, size(c) - 1)

RECURSIVE lowest_scan(_, _)
lowest_scan(c, i) ==
    IF i < size(c)
    THEN IF ~(c[i + 1] = ZERO_COEFF) THEN i ELSE lowest_scan(c, i + 1)
    ELSE 0

lowest(c) == lowest_scan(c, 0)

leading_coeff(c) == at(c, deg(c))

is_power(c) == lowest(c) = deg(c) /\ leading_coeff(c) = id_coeff

shrink_to_fit(c) == vector_resize(c, deg(c) + 1)

\* a comparison that walks from index 0 up to i
RECURSIVE cmp_scan_ascending(_, _, _, _)
cmp_scan_ascending(p1, p2, j, i) ==
    IF j > i THEN 0
    ELSE IF at(p1, j) < at(p2, j) THEN -1
    ELSE IF at(p2, j) < at(p1, j) THEN 1
    ELSE cmp_scan_ascending(p1, p2, j + 1, i)

cmp_from_low(p1, p2, i) == cmp_scan_ascending(p1, p2, 0, i)

\* for (int i = l; i >= 0; i--) { if (p1[i] < p2[i]) return -1; ... }
RECURSIVE cmp_scan(_, _, _)
cmp_scan(p1, p2, i) ==
    IF i < 0 THEN 0
    ELSE IF at(p1, i) < at(p2, i) THEN -1
    ELSE IF at(p2, i) < at(p1, i) THEN 1
    ELSE cmp_scan(p1, p2, i - 1)

cmp(p1, p2) == cmp_scan(p1, p2, Max(deg(p1), deg(p2)))

\* a Horner loop that stops above the constant term: for (i = deg(); i > 0; i--)
RECURSIVE eval_above_constant(_, _, _, _)
eval_above_constant(c, pt, i, r) ==
    IF i <= 0 THEN r ELSE eval_above_constant(c, pt, i - 1, r * pt + c[i + 1])

\* for (int i = deg(); i >= 0; i--) r = r * x + castOf(x, c[i]);
RECURSIVE eval_loop(_, _, _, _)
eval_loop(c, pt, i, r) ==
    IF i < 0 THEN r ELSE eval_loop(c, pt, i - 1, r * pt + c[i + 1])

\* A eval(const A& x) const, for A = int
eval(c, pt) == IF size(c) = 0 THEN 0 ELSE eval_loop(c, pt, deg(c), 0)

\* bool operator ==, !=, <, >, <=, >= (const polynom &rhs) const
relational(r, p1, p2) ==
    IF r = "==" THEN cmp(p1, p2) = 0
    ELSE IF r = "!=" THEN cmp(p1, p2) # 0
    ELSE IF r = "<" THEN cmp(p1, p2) < 0
    ELSE IF r = ">" THEN cmp(p1, p2) > 0
    ELSE IF r = "<=" THEN cmp(p1, p2) <= 0
    ELSE cmp(p1, p2) >= 0

---------------------------------------------------------------------------
(* The store of instances, references and raw pointers.                    *)

obj(st, o) == st.m[o]

put(st, o, c) == [st EXCEPT !.m[o] = c]

\* c.data() of instance o
data(o) == <<o, 0>>

\* p + k
adv(p, k) == <<p[1], p[2] + k>>

\* p[i] read / p[i] = v
rd(st, p, i) == st.m[p[1]][p[2] + i + 1]

wr(st, p, i, v) == [st EXCEPT !.m[p[1]][p[2] + i + 1] = v]

\* k more evaluations of T / T (or T /= T) have taken place
divided(st, k) == [st EXCEPT !.divs = @ + k]

\* a local std::vector<T> with contents c; it becomes instance Len(st.m) + 1
alloc(st, c) == [st EXCEPT !.m = Append(@, c)]

\* the locals above the first `base` instances go out of scope
release(st, base) == [st EXCEPT !.m = SubSeq(@, 1, base)]

\* pr.resize(sz, ZERO_COEFF) on instance pr
resize_obj(st, pr, sz) == put(st, pr, resize(obj(st, pr), sz))

\* a copy that empties the target before it reads the source
assign_clear_first(st, pr, p1) == put(put(st, pr, <<>>), pr, obj(put(st, pr, <<>>), p1))

\* pr = p1
assign(st, pr, p1) == put(st, pr, obj(st, p1))

\* the growth T& operator[](index) does on instance pr: reserve(index + 1)
reserve_obj(st, pr, sz) == put(st, pr, reserve(obj(st, pr), sz))

\* T / T for int: quotient truncated toward zero (b # 0)
Abs(a) == IF a < 0 THEN -a ELSE a

int_div(a, b) ==
    IF (a >= 0) = (b > 0) THEN Abs(a) \div Abs(b) ELSE -(Abs(a) \div Abs(b))

---------------------------------------------------------------------------
(* neg, add, sub.                                                          *)

RECURSIVE add_loop(_, _, _, _, _, _)
add_loop(st, pr, p1, p2, i, lr) ==
    IF i > lr THEN st
    ELSE add_loop(put(st, pr, index_write(obj(st, pr), i,
                          at(obj(st, p1), i) + at(obj(st, p2), i))),
                  pr, p1, p2, i + 1, lr)

add(st, pr, p1, p2) ==
    LET lr == Max(deg(obj(st, p1)), deg(obj(st, p2)))
    IN  add_loop(resize_obj(st, pr, lr + 1), pr, p1, p2, 0, lr)

RECURSIVE sub_loop(_, _, _, _, _, _)
sub_loop(st, pr, p1, p2, i, lr) ==
    IF i > lr THEN st
    ELSE sub_loop(put(st, pr, index_write(obj(st, pr), i,
                          at(obj(st, p1), i) - at(obj(st, p2), i))),
                  pr, p1, p2, i + 1, lr)

sub(st, pr, p1, p2) ==
    LET lr == Max(deg(obj(st, p1)), deg(obj(st, p2)))
    IN  sub_loop(resize_obj(st, pr, lr + 1), pr, p1, p2, 0, lr)

---------------------------------------------------------------------------
(* Raw helpers on T*.                                                      *)

RECURSIVE zero_loop(_, _, _, _)
zero_loop(st, pr, i, lr) ==
    IF i > lr THEN st ELSE zero_loop(wr(st, pr, i, ZERO_COEFF), pr, i + 1, lr)

\* a fill that starts one coefficient late
_zero_late(st, pr, lm, lr) == zero_loop(st, pr, lm + 2, lr)

_zero(st, pr, lm, lr) == zero_loop(st, pr, lm + 1, lr)

RECURSIVE add_to_loop(_, _, _, _, _)
add_to_loop(st, pr, p2, i, l2) ==
    IF i > l2 THEN st
    ELSE add_to_loop(wr(st, pr, i, rd(st, pr, i) + rd(st, p2, i)),
                     pr, p2, i + 1, l2)

_add_to(st, pr, p2, l2) == add_to_loop(st, pr, p2, 0, l2)

RECURSIVE sub_from_loop(_, _, _, _, _)
sub_from_loop(st, pr, p2, i, l2) ==
    IF i > l2 THEN st
    ELSE sub_from_loop(wr(st, pr, i, rd(st, pr, i) - rd(st, p2, i)),
                       pr, p2, i + 1, l2)

\* a subtraction with the sign lost
_sub_from_added(st, pr, p2, l2) == add_to_loop(st, pr, p2, 0, l2)

_sub_from(st, pr, p2, l2) == sub_from_loop(st, pr, p2, 0, l2)

---------------------------------------------------------------------------
(* Schoolbook multiplication.                                              *)

\* the inner loop: r += p1[j] * p2[i - j] for j = jmax down to jmin
RECURSIVE mul_long_inner(_, _, _, _, _, _, _)
mul_long_inner(st, p1, p2, i, j, jmin, r) ==
    IF j < jmin THEN r
    ELSE mul_long_inner(st, p1, p2, i, j - 1, jmin,
                        r + rd(st, p1, j) * rd(st, p2, i - j))

\* for (int i = lr; i >= 0; i--) { ...; pr[i] = r; }
RECURSIVE mul_long_outer(_, _, _, _, _, _, _, _)
mul_long_outer(st, pr, lr, p1, l1, p2, l2, i) ==
    IF i < 0 THEN st
    ELSE LET jmax == Min(i, l1)
             jmin == Max(0, i - l2)
             r    == mul_long_inner(st, p1, p2, i, jmax, jmin, ZERO_COEFF)
         IN  mul_long_outer(wr(st, pr, i, r), pr, lr, p1, l1, p2, l2, i - 1)

\* the outer loop run from i = 0 up to lr
RECURSIVE mul_long_ascending(_, _, _, _, _, _, _, _)
mul_long_ascending(st, pr, lr, p1, l1, p2, l2, i) ==
    IF i > lr THEN st
    ELSE LET jmax == Min(i, l1)
             jmin == Max(0, i - l2)
             r    == mul_long_inner(st, p1, p2, i, jmax, jmin, ZERO_COEFF)
         IN  mul_long_ascending(wr(st, pr, i, r), pr, lr, p1, l1, p2, l2, i + 1)

_mul_long_ascending(st, pr, lr, p1, l1, p2, l2) ==
    mul_long_ascending(st, pr, lr, p1, l1, p2, l2, 0)

_mul_long(st, pr, lr, p1, l1, p2, l2) ==
    mul_long_outer(st, pr, lr, p1, l1, p2, l2, lr)

---------------------------------------------------------------------------
(* Karatsuba multiplication, _mul and the polynom_mul<T>::impl dispatch.   *)

\* l2 below which polynom_mul<T>::impl multiplies the schoolbook way
KARATSUBA_MIN_L2 == 48

\* std::vector<T> S(p, p + k)
RECURSIVE range_copy(_, _, _)
range_copy(st, p, k) ==
    IF k <= 0 THEN <<>> ELSE Append(range_copy(st, p, k - 1), rd(st, p, k - 1))

alloc_range(st, p, k) == alloc(st, range_copy(st, p, k))

\* for (int i = lr; i >= 0; i--) pr[i] = p1[i] * p2[0];
RECURSIVE karatsuba_scale(_, _, _, _, _)
karatsuba_scale(st, pr, p1, p2, i) ==
    IF i < 0 THEN st
    ELSE karatsuba_scale(wr(st, pr, i, rd(st, p1, i) * rd(st, p2, 0)),
                         pr, p1, p2, i - 1)

RECURSIVE _mul(_, _, _, _, _, _, _)

\* the branch l2 < k: p1 = lo + x^k hi, pr = lo * p2 + x^k (hi * p2)
karatsuba_split1(st, pr, lr, p1, l1, p2, l2, k) ==
    LET MM == <<Len(st.m) + 1, 0>>
        s1 == alloc(st, vector_fill(lr - k + 1))
        s2 == _mul(s1, MM, lr - k, adv(p1, k), l1 - k, p2, l2)
        s3 == _mul(s2, pr, Min(lr, l2 + k - 1), p1, k - 1, p2, l2)
        s4 == _zero(s3, pr, l2 + k - 1, lr)
        s5 == _add_to(s4, adv(pr, k), MM, lr - k)
    IN  release(s5, Len(st.m))

\* the branch l2 >= k: the three-product decomposition
karatsuba_split2(st, pr, lr, p1, l1, p2, l2, k) ==
    LET S1   == <<Len(st.m) + 1, 0>>
        S2   == <<Len(st.m) + 2, 0>>
        MM   == <<Len(st.m) + 3, 0>>
        HH   == <<Len(st.m) + 4, 0>>
        mm_l == Min(lr - k, k - 1 + k - 1)
        hh_l == Min(mm_l, l1 - k + l2 - k)
        s1   == alloc_range(st, p1, k)
        s2   == _add_to(s1, S1, adv(p1, k), l1 - k)
        s3   == alloc_range(s2, p2, k)
        s4   == _add_to(s3, S2, adv(p2, k), l2 - k)
        s5   == alloc(s4, vector_fill(mm_l + 1))
        s6   == _mul(s5, MM, mm_l, S1, k - 1, S2, k - 1)
        s7   == alloc(s6, vector_fill(hh_l + 1))
        s8   == _mul(s7, HH, hh_l, adv(p1, k), l1 - k, adv(p2, k), l2 - k)
        s9   == _mul(s8, pr, k - 1 + k - 1, p1, k - 1, p2, k - 1)
        s10  == _zero(s9, pr, k - 1 + k - 1, lr)
        s11  == _sub_from(s10, MM, pr, Min(mm_l, k - 1 + k - 1))
        s12  == _sub_from(s11, MM, HH, hh_l)
        s13  == _add_to(s12, adv(pr, k), MM, mm_l)
        s14  == _add_to(s13, adv(pr, k + k), HH, lr - k - k)
    IN  release(s14, Len(st.m))

_mul_karatsuba(st, pr, lr, p1, l1, p2, l2) ==
    LET k == (l1 \div 2) + 1
    IN  IF l2 = 0 THEN karatsuba_scale(st, pr, p1, p2, lr)
        ELSE IF l2 < k THEN karatsuba_split1(st, pr, lr, p1, l1, p2, l2, k)
        ELSE karatsuba_split2(st, pr, lr, p1, l1, p2, l2, k)

polynom_mul_impl(st, pr, lr, p1, l1, p2, l2) ==
    IF l2 < KARATSUBA_MIN_L2
    THEN _mul_long(st, pr, lr, p1, l1, p2, l2)
    ELSE _mul_karatsuba(st, pr, lr, p1, l1, p2, l2)

\* _mul once l2 <= l1: clamp, zero-fill, delegate
mul_normalized(st, pr, lr, p1, l1, p2, l2) ==
    polynom_mul_impl(_zero(st, pr, Min(l1, lr) + Min(l2, lr), lr),
                     pr, Min(lr, Min(l1, lr) + Min(l2, lr)),
                     p1, Min(l1, lr), p2, Min(l2, lr))

_mul(st, pr, lr, p1, l1, p2, l2) ==
    IF l2 > l1 THEN _mul(st, pr, lr, p2, l2, p1, l1)
    ELSE mul_normalized(st, pr, lr, p1, l1, p2, l2)

\* mul after pr.resize(lr + 1, p1.ZERO_COEFF)
mul_resized(st, pr, p1, p2, lr, l1, l2) ==
    IF size(obj(st, p1)) = 0 \/ size(obj(st, p2)) = 0
    THEN _zero(st, data(pr), -1, lr)
    ELSE _mul(st, data(pr), lr, data(p1), l1, data(p2), l2)

mul_with_lr(st, pr, p1, p2, lr) ==
    mul_resized(resize_obj(st, pr, lr + 1), pr, p1, p2, lr,
                deg(obj(st, p1)), deg(obj(st, p2)))

\* mul whose default lr is the larger of the two degrees
mul_default_max(st, pr, p1, p2, lr) ==
    IF lr < 0
    THEN mul_with_lr(st, pr, p1, p2, Max(deg(obj(st, p1)), deg(obj(st, p2))))
    ELSE mul_with_lr(st, pr, p1, p2, lr)

\* mul(pr, p1, p2, lr); lr = -1 is the default argument
mul(st, pr, p1, p2, lr) ==
    IF lr < 0
    THEN mul_with_lr(st, pr, p1, p2, deg(obj(st, p1)) + deg(obj(st, p2)))
    ELSE mul_with_lr(st, pr, p1, p2, lr)

---------------------------------------------------------------------------
(* Multiplication and division by a scalar; the value-returning operators. *)

RECURSIVE mul_scalar_loop(_, _, _, _, _, _)
mul_scalar_loop(st, pr, p1, s, i, lr) ==
    IF i > lr THEN st
    ELSE mul_scalar_loop(put(st, pr, index_write(obj(st, pr), i,
                                 at(obj(st, p1), i) * s)),
                         pr, p1, s, i + 1, lr)

\* mul(polynom &pr, const polynom &p1, const T &s)
mul_scalar(st, pr, p1, s) ==
    mul_scalar_loop(resize_obj(st, pr, deg(obj(st, p1)) + 1),
                    pr, p1, s, 0, deg(obj(st, p1)))

RECURSIVE div_scalar_loop(_, _, _, _, _, _)
div_scalar_loop(st, pr, p1, s, i, lr) ==
    IF i > lr THEN st
    ELSE div_scalar_loop(divided(put(st, pr, index_write(obj(st, pr), i,
                                         int_div(at(obj(st, p1), i), s))), 1),
                         pr, p1, s, i + 1, lr)

\* div(polynom &pr, const polynom &p1, const T &s)
div_scalar(st, pr, p1, s) ==
    IF s = 0 THEN [st EXCEPT !.ub = TRUE]
    ELSE div_scalar_loop(resize_obj(st, pr, deg(obj(st, p1)) + 1),
                         pr, p1, s, 0, deg(obj(st, p1)))

\* a store holding the instances cs and nothing else
store(cs) == [m |-> cs, ub |-> FALSE, divs |-> 0]

\* polynom operator + (const polynom &rhs) const: t(*this); t += rhs
operator_add(a, b) == obj(add(store(<<a, b>>), 1, 1, 2), 1)

\* polynom operator * (const polynom &rhs) const: t(*this); t *= rhs
operator_mul(a, b) == obj(mul(store(<<a, b>>), 1, 1, 2, -1), 1)

\* polynom operator / (const T &val) const: t(*this); t /= val  (val # 0)
operator_div_scalar(a, s) == obj(div_scalar(store(<<a>>), 1, 1, s), 1)

---------------------------------------------------------------------------
(* inverse: Newton doubling.                                               *)

\* the update with the sign lost: r[i] = t[i - k]
RECURSIVE inverse_update_plus(_, _, _, _)
inverse_update_plus(r, t, i, k) ==
    IF i < k THEN r
    ELSE inverse_update_plus(index_write(r, i, reserve(t, i - k + 1)[i - k + 1]),
                             t, i - 1, k)

\* for (int i = m; i >= k; i--) r[i] = -t[i - k];
RECURSIVE inverse_update(_, _, _, _)
inverse_update(r, t, i, k) ==
    IF i < k THEN r
    ELSE inverse_update(index_write(r, i, -(reserve(t, i - k + 1)[i - k + 1])),
                        t, i - 1, k)

\* t.c.erase(t.c.begin(), t.c.begin() + k)
erase_front(st, t, k) == put(st, t, SubSeq(obj(st, t), k + 1, size(obj(st, t))))

\* a pass that updates r up to index l, whatever L is
inverse_step_unbounded(c, r, L, l) ==
    LET k  == (l \div 2) + 1
        s1 == mul(store(<<SubSeq(c, 1, Min(l + 1, size(c))), r>>), 1, 1, 2, l + 1)
        s2 == mul(erase_front(s1, 1, k), 1, 1, 2, l - k)
    IN  inverse_update(r, obj(s2, 1), l, k)

\* one pass of the loop body for working precision l, from r to the next r;
\* instance 1 is t, instance 2 is r
inverse_step(c, r, L, l) ==
    LET m  == Min(L - 1, l)
        k  == (l \div 2) + 1
        s1 == mul(store(<<SubSeq(c, 1, Min(m + 1, size(c))), r>>), 1, 1, 2, l + 1)
        s2 == mul(erase_front(s1, 1, k), 1, 1, 2, l - k)
    IN  inverse_update(r, obj(s2, 1), m, k)

\* for (int l = 1; l < L * 2; l *= 2) { ... }
RECURSIVE inverse_loop(_, _, _, _)
inverse_loop(c, r, L, l) ==
    IF ~(l < L * 2) THEN r
    ELSE inverse_loop(c, inverse_step(c, r, L, l), L, l * 2)

\* polynom inverse(int L) const, for a non-empty c
RECURSIVE inverse(_, _)
inverse(c, L) ==
    IF c[1] = ZERO_COEFF THEN <<ZERO_COEFF>>
    ELSE IF c[1] # id_coeff
         THEN operator_div_scalar(inverse(operator_div_scalar(c, c[1]), L), c[1])
         ELSE inverse_loop(c, <<id_coeff>>, L, 1)

\* the evaluations of T / T a call of inverse makes: none on the two early
\* paths, deg() + 1 in each of the two scalar divisions of the normalisation
RECURSIVE inverse_divs(_, _)
inverse_divs(c, L) ==
    IF c[1] = ZERO_COEFF THEN 0
    ELSE IF c[1] # id_coeff
         THEN (deg(c) + 1)
              + inverse_divs(operator_div_scalar(c, c[1]), L)
              + (deg(inverse(operator_div_scalar(c, c[1]), L)) + 1)
         ELSE 0

---------------------------------------------------------------------------
(* Division: quot_rem_long, quot_rem_hensel, quot_rem, div, mod.           *)

\* the first k coefficients of c, last first
RECURSIVE reversed(_, _)
reversed(c, k) == IF k <= 0 THEN <<>> ELSE <<c[k]>> \o reversed(c, k - 1)

\* std::reverse(q.c.begin(), q.c.begin() + cnt)
reverse_prefix(c, cnt) == reversed(c, cnt) \o SubSeq(c, cnt + 1, Len(c))

\* std::reverse(r.c.begin(), r.c.begin() + r.deg() + 1) on a copy
reverse(c) == IF size(c) > 0 THEN reverse_prefix(c, deg(c) + 1) ELSE c

\* the elimination step reading the divisor from the low end: s * p2[j]
quot_rem_long_elim_low(st, pr, p2, l2, i, s, j) ==
    put(st, pr, index_write(obj(st, pr), i - j,
                    obj(st, pr)[i - j + 1] - s * at(obj(st, p2), j)))

\* pr[i - j] = pr[i - j] - s * p2[l2 - j]
quot_rem_long_elim(st, pr, p2, l2, i, s, j) ==
    put(st, pr, index_write(obj(st, pr), i - j,
                    obj(st, pr)[i - j + 1] - s * at(obj(st, p2), l2 - j)))

\* for (int j = 1; j <= l2; j++) ...
RECURSIVE quot_rem_long_inner(_, _, _, _, _, _, _)
quot_rem_long_inner(st, pr, p2, l2, i, s, j) ==
    IF j > l2 THEN st
    ELSE quot_rem_long_inner(quot_rem_long_elim(st, pr, p2, l2, i, s, j),
                             pr, p2, l2, i, s, j + 1)

\* what follows  T s = pr[i] /= p2[l2]  in the loop body
quot_rem_long_row(st, pr, p2, l2, i, s) ==
    IF s = ZERO_COEFF THEN st
    ELSE quot_rem_long_inner(st, pr, p2, l2, i, s, 1)

\* T s = pr[i] /= p2[l2]: the store after the division, for p2[l2] # 0
quot_rem_long_norm(st, pr, p2, l2, i) ==
    divided(put(st, pr, index_write(obj(st, pr), i,
                            int_div(obj(st, pr)[i + 1], at(obj(st, p2), l2)))), 1)

\* the loop body, once operator[] has made pr hold coefficient i
quot_rem_long_body(st, pr, p2, l2, i) ==
    IF at(obj(st, p2), l2) = 0 THEN [st EXCEPT !.ub = TRUE]
    ELSE quot_rem_long_row(quot_rem_long_norm(st, pr, p2, l2, i), pr, p2, l2, i,
                           int_div(obj(st, pr)[i + 1], at(obj(st, p2), l2)))

\* for (int i = l1; i >= l2; i--) { ... }
RECURSIVE quot_rem_long_outer(_, _, _, _, _)
quot_rem_long_outer(st, pr, p2, l2, i) ==
    IF i < l2 \/ st.ub THEN st
    ELSE quot_rem_long_outer(
             quot_rem_long_body(reserve_obj(st, pr, i + 1),
                                pr, p2, l2, i),
             pr, p2, l2, i - 1)

\* quot_rem_long after  pr = p1
quot_rem_long_assigned(st, pr, p2, l1, l2) ==
    IF l1 - l2 < 0 \/ is_power(obj(st, p2)) THEN st
    ELSE quot_rem_long_outer(st, pr, p2, l2, l1)

quot_rem_long(st, pr, p1, p2) ==
    quot_rem_long_assigned(assign(st, pr, p1), pr, p2,
                           deg(obj(st, p1)), deg(obj(st, p2)))

\* the temporaries p2.reverse().inverse(lq + 1) and p1.reverse()
alloc_inverse(st, p2, L) == alloc(st, inverse(reverse(obj(st, p2)), L))

alloc_reverse(st, p1) == alloc(st, reverse(obj(st, p1)))

\* std::reverse(q.c.begin(), q.c.begin() + lq + 1)
reverse_obj(st, q, cnt) == put(st, q, reverse_prefix(obj(st, q), cnt))

\* the temporary q * p2
alloc_product(st, q, p2) == alloc(st, operator_mul(obj(st, q), obj(st, p2)))

\* an insertion of one zero less
insert_front_short(st, q, l2) == put(st, q, vector_fill(l2 - 1) \o obj(st, q))

\* q.c.insert(q.c.begin(), l2, q.ZERO_COEFF)
insert_front(st, q, l2) == put(st, q, vector_fill(l2) \o obj(st, q))

quot_rem_hensel_assigned(st, pr, p1, p2, l1, l2) ==
    IF l1 - l2 < 0 \/ is_power(obj(st, p2)) THEN st
    ELSE LET q  == Len(st.m) + 1
             lq == l1 - l2
             s2 == alloc(st, <<ZERO_COEFF>>)
             s3 == alloc_inverse(s2, p2, lq + 1)
             s4 == alloc_reverse(s3, p1)
             s5 == mul(s4, q, q + 1, q + 2, lq)
             s6 == reverse_obj(s5, q, lq + 1)
             s7 == alloc_product(s6, q, p2)
             s8 == sub(s7, pr, pr, q + 3)
             s9 == insert_front(s8, q, l2)
         IN  divided(release(add(s9, pr, pr, q), Len(st.m)),
                     inverse_divs(reverse(obj(st, p2)), l1 - l2 + 1))

quot_rem_hensel(st, pr, p1, p2) ==
    quot_rem_hensel_assigned(assign(st, pr, p1), pr, p1, p2,
                             deg(obj(st, p1)), deg(obj(st, p2)))

HENSEL_MIN_L1 == 100
HENSEL_MIN_L2 == 50
HENSEL_LOG_FACTOR == 25

\* Naturals too large for a machine word, as little-endian digits in base
\* BIG_BASE, used only to decide  l2 < 25 * log2(l1)  exactly.
BIG_BASE == 10000

RECURSIVE big_mul_small(_, _, _, _)
big_mul_small(a, k, i, carry) ==
    IF i > Len(a) THEN (IF carry = 0 THEN <<>> ELSE <<carry>>)
    ELSE <<(a[i] * k + carry) % BIG_BASE>>
         \o big_mul_small(a, k, i + 1, (a[i] * k + carry) \div BIG_BASE)

RECURSIVE big_pow(_, _)
big_pow(b, e) ==
    IF e = 0 THEN <<1>> ELSE big_mul_small(big_pow(b, e - 1), b, 1, 0)

RECURSIVE big_less_from(_, _, _)
big_less_from(a, b, i) ==
    IF i = 0 THEN FALSE
    ELSE IF a[i] # b[i] THEN a[i] < b[i] ELSE big_less_from(a, b, i - 1)

big_less(a, b) ==
    IF Len(a) # Len(b) THEN Len(a) < Len(b) ELSE big_less_from(a, b, Len(a))

\* 2^e, thirteen doublings at a time
RECURSIVE big_pow2(_)
big_pow2(e) ==
    IF e >= 13 THEN big_mul_small(big_pow2(e - 13), 8192, 1, 0)
    ELSE <<2 ^ e>>

\* l2 < 25 * log2(l1), that is 2^l2 < l1^25, for 1 <= l1 < BIG_BASE
below_log2_bound(l2, l1) ==
    big_less(big_pow2(l2), big_pow(l1, HENSEL_LOG_FACTOR))

\* (p2.id_coeff() / p2[l2]) * p2[l2] == p2.id_coeff(), for d = p2[l2] # 0
is_invertible(d) == int_div(id_coeff, d) * d = id_coeff

quot_rem_select(st, pr, p1, p2, l1, l2) ==
    IF \/ l1 < HENSEL_MIN_L1
       \/ l2 < HENSEL_MIN_L2
       \/ below_log2_bound(l2, l1)
       \/ ~is_invertible(at(obj(st, p2), l2))
    THEN quot_rem_long(st, pr, p1, p2)
    ELSE quot_rem_hensel(st, pr, p1, p2)

quot_rem(st, pr, p1, p2) ==
    IF leading_coeff(obj(st, p2)) = 0 THEN [st EXCEPT !.ub = TRUE]
    ELSE quot_rem_select(divided(st, 1), pr, p1, p2,
                         deg(obj(st, p1)), deg(obj(st, p2)))

\* pr[i] = pr[i + l2]
div_shift_one(st, pr, l2, i) ==
    put(st, pr, index_write(reserve(obj(st, pr), i + l2 + 1), i,
                    reserve(obj(st, pr), i + l2 + 1)[i + l2 + 1]))

\* for (int i = 0; i <= lr; i++) pr[i] = pr[i + l2];
RECURSIVE div_shift(_, _, _, _, _)
div_shift(st, pr, l2, i, lr) ==
    IF i > lr THEN st
    ELSE div_shift(div_shift_one(st, pr, l2, i), pr, l2, i + 1, lr)

\* div after quot_rem
div_finish(st, pr, l2, lr) ==
    IF st.ub THEN st
    ELSE resize_obj(div_shift(st, pr, l2, 0, lr), pr, lr + 1)

\* div whose early return is taken one degree late: if (lr < -1)
div_return_late(st, pr, p1, p2) ==
    LET l2 == deg(obj(st, p2))
        lr == deg(obj(st, p1)) - deg(obj(st, p2))
    IN  IF lr < -1 THEN put(st, pr, <<>>)
        ELSE div_finish(quot_rem(st, pr, p1, p2), pr, l2, lr)

div(st, pr, p1, p2) ==
    LET l2 == deg(obj(st, p2))
        lr == deg(obj(st, p1)) - deg(obj(st, p2))
    IN  IF lr < 0 THEN put(st, pr, <<>>)
        ELSE div_finish(quot_rem(st, pr, p1, p2), pr, l2, lr)

\* mod that leaves the quotient coefficients in place
mod_finish_uncut(st, pr, l1, lr) == st

\* mod that also cuts when lr = l1
mod_finish_cut_equal(st, pr, l1, lr) ==
    IF st.ub THEN st
    ELSE IF lr <= l1 THEN resize_obj(st, pr, lr + 1)
    ELSE st

\* mod after quot_rem
mod_finish(st, pr, l1, lr) ==
    IF st.ub THEN st
    ELSE IF lr < l1 THEN resize_obj(st, pr, lr + 1)
    ELSE st

mod(st, pr, p1, p2) ==
    mod_finish(quot_rem(st, pr, p1, p2), pr,
               deg(obj(st, p1)), deg(obj(st, p2)) - 1)

---------------------------------------------------------------------------
(* The ring of the transforms: T = R = modulo<int, FFT_MODULUS>, the        *)
(* integers modulo a prime, with values 0 .. FFT_MODULUS - 1.              *)

FFT_MODULUS == 17

ring_add(a, b) == (a + b) % FFT_MODULUS

ring_sub(a, b) == (a + FFT_MODULUS - b) % FFT_MODULUS

ring_mul(a, b) == (a * b) % FFT_MODULUS

\* powT(b, e): b^e by repeated squaring, e >= 0
RECURSIVE powT(_, _)
powT(b, e) ==
    IF e = 0 THEN 1
    ELSE IF e % 2 = 1 THEN ring_mul(b, powT(ring_mul(b, b), e \div 2))
    ELSE powT(ring_mul(b, b), e \div 2)

\* a / b: a times the inverse b^(FFT_MODULUS - 2) of b, for b # 0
ring_div(a, b) == ring_mul(a, powT(b, FFT_MODULUS - 2))

\* a & b and a ^ b on non-negative ints
RECURSIVE bit_and(_, _)
bit_and(a, b) ==
    IF a = 0 \/ b = 0 THEN 0
    ELSE (a % 2) * (b % 2) + 2 * bit_and(a \div 2, b \div 2)

RECURSIVE bit_xor(_, _)
bit_xor(a, b) ==
    IF a = 0 /\ b = 0 THEN 0
    ELSE ((a + b) % 2) + 2 * bit_xor(a \div 2, b \div 2)

---------------------------------------------------------------------------
(* fft: the in-place iterative transform.  dat is the array data[0..sz-1]; *)
(* the pointer data0 is its index i0.                                      *)

\* T t = *data0 - *data1; *data0 += *data1; *data1 = t * T(w);
\* with data1 = data0 + h
fft_butterfly(dat, i0, h, w) ==
    [dat EXCEPT ![i0 + 1]     = ring_add(dat[i0 + 1], dat[i0 + h + 1]),
                ![i0 + h + 1] = ring_mul(ring_sub(dat[i0 + 1], dat[i0 + h + 1]), w)]

\* for (T* dataH = data0 + h; data0 != dataH; data0++) { ...; w *= root; }
RECURSIVE fft_inner(_, _, _, _, _, _)
fft_inner(dat, i0, iH, h, w, root) ==
    IF i0 = iH THEN dat
    ELSE fft_inner(fft_butterfly(dat, i0, h, w), i0 + 1, iH, h,
                   ring_mul(w, root), root)

\* for (T* data0 = data; data0 != data + size; data0 += h) { R w = e1; ... }
\* the inner loop has advanced data0 by h when the increment adds h again
RECURSIVE fft_blocks(_, _, _, _, _)
fft_blocks(dat, i0, sz, h, root) ==
    IF i0 = sz THEN dat
    ELSE fft_blocks(fft_inner(dat, i0, i0 + h, h, 1, root), i0 + h + h, sz, h, root)

\* for (int m = size; m > 1; m /= 2) { int h = m / 2; ...; root *= root; }
RECURSIVE fft_stages(_, _, _, _)
fft_stages(dat, sz, m, root) ==
    IF ~(m > 1) THEN dat
    ELSE fft_stages(fft_blocks(dat, 0, sz, m \div 2, root), sz, m \div 2,
                    ring_mul(root, root))

\* for (int k = size / 2; (i ^= k) < k; k /= 2);  the value i is left with
RECURSIVE reorder_next(_, _)
reorder_next(i, k) ==
    IF bit_xor(i, k) < k THEN reorder_next(bit_xor(i, k), k \div 2)
    ELSE bit_xor(i, k)

\* std::swap(data[i], data[j])
swap(dat, i, j) == [dat EXCEPT ![i + 1] = dat[j + 1], ![j + 1] = dat[i + 1]]

\* a reorder pass that swaps whenever i and j differ
reorder_swap_always(dat, i, j) == IF j # i THEN swap(dat, i, j) ELSE dat

\* if (j < i) std::swap(data[i], data[j]);
reorder_swap(dat, i, j) == IF j < i THEN swap(dat, i, j) ELSE dat

\* for (int i = 0, j = 1; j < size - 1; j++) { ... }
RECURSIVE reorder(_, _, _, _)
reorder(dat, sz, i, j) ==
    IF ~(j < sz - 1) THEN dat
    ELSE reorder(reorder_swap(dat, reorder_next(i, sz \div 2), j), sz,
                 reorder_next(i, sz \div 2), j + 1)

\* an fft that tests only the lowest bit of the size: if ((size & 1) != 0)
fft_low_bit_test(dat, sz, root) ==
    IF sz > 1 /\ bit_and(sz, 1) # 0 THEN dat
    ELSE reorder(fft_stages(dat, sz, sz, root), sz, 0, 1)

\* void fft(T* data, int size, R root), size >= 1
fft(dat, sz, root) ==
    IF bit_and(sz, sz - 1) # 0 THEN dat
    ELSE reorder(fft_stages(dat, sz, sz, root), sz, 0, 1)

---------------------------------------------------------------------------
(* fft_rec and fft_cyclic_convolution, on raw pointers into the store; as  *)
(* in the division routines, a store with ub set is not followed further.  *)

\* a combination that adds in both halves
fft_rec_combine_added(st, dest, h, i, z) ==
    wr(wr(st, dest, i + h, ring_add(rd(st, dest, i), z)),
       dest, i, ring_add(rd(st, dest, i), z))

\* T z = dest[i + h] * T(rooti); dest[i + h] = dest[i] - z; dest[i] += z;
fft_rec_combine_one(st, dest, h, i, z) ==
    wr(wr(st, dest, i + h, ring_sub(rd(st, dest, i), z)),
       dest, i, ring_add(rd(st, dest, i), z))

\* for (int i = 0; i < h; i++, rooti *= root) { ... }
RECURSIVE fft_rec_combine(_, _, _, _, _, _)
fft_rec_combine(st, dest, h, root, i, rooti) ==
    IF st.ub \/ ~(i < h) THEN st
    ELSE fft_rec_combine(
             fft_rec_combine_one(st, dest, h, i,
                                 ring_mul(rd(st, dest, i + h), rooti)),
             dest, h, root, i + 1, ring_mul(rooti, root))

\* a recursion whose second half always starts at src + 1
RECURSIVE fft_rec_unstrided(_, _, _, _, _, _)
fft_rec_unstrided(st, dest, src, sz, root, off) ==
    IF st.ub THEN st
    ELSE IF sz <= 1 THEN wr(st, dest, 0, rd(st, src, 0))
    ELSE fft_rec_combine(
             fft_rec_unstrided(fft_rec_unstrided(st, dest, src, sz \div 2,
                                                 ring_mul(root, root), off * 2),
                               adv(dest, sz \div 2), adv(src, 1), sz \div 2,
                               ring_mul(root, root), off * 2),
             dest, sz \div 2, root, 0, 1)

\* void fft_rec(T *dest, T *src, int size, const R& root, int off = 1)
RECURSIVE fft_rec(_, _, _, _, _, _)
fft_rec(st, dest, src, sz, root, off) ==
    IF st.ub THEN st
    ELSE IF sz <= 1 THEN wr(st, dest, 0, rd(st, src, 0))
    ELSE fft_rec_combine(
             fft_rec(fft_rec(st, dest, src, sz \div 2,
                             ring_mul(root, root), off * 2),
                     adv(dest, sz \div 2), adv(src, off), sz \div 2,
                     ring_mul(root, root), off * 2),
             dest, sz \div 2, root, 0, 1)

\* for (int i = 0; i < size; i++) dataR[i] = data1[i] * data2[i];
RECURSIVE pointwise_product(_, _, _, _, _, _)
pointwise_product(st, dataR, data1, data2, sz, i) ==
    IF st.ub \/ ~(i < sz) THEN st
    ELSE pointwise_product(
             wr(st, dataR, i, ring_mul(rd(st, data1, i), rd(st, data2, i))),
             dataR, data1, data2, sz, i + 1)

\* for (int i = 0; i < size; i++) dataR[i] *= isize;
RECURSIVE scale(_, _, _, _, _)
scale(st, dataR, isize, sz, i) ==
    IF st.ub \/ ~(i < sz) THEN st
    ELSE scale(wr(st, dataR, i, ring_mul(rd(st, dataR, i), isize)),
               dataR, isize, sz, i + 1)

\* fft_cyclic_convolution once root and iroot are known; each std::swap of
\* two pointer arguments shows as the exchanged arguments of the next step
cyclic_convolution_with(st, dataR, data1, data2, sz, root, iroot) ==
    scale(divided(fft_rec(pointwise_product(
                              fft_rec(fft_rec(st, dataR, data1, sz, root, 1),
                                      data1, data2, sz, root, 1),
                              data2, dataR, data1, sz, 0),
                          dataR, data2, sz, iroot, 1), 1),
          dataR, ring_div(1, sz % FFT_MODULUS), sz, 0)

\* a convolution that transforms back with root instead of iroot
fft_cyclic_convolution_same_root(st, dataR, data1, data2, sz, root_base, root_order) ==
    cyclic_convolution_with(st, dataR, data1, data2, sz,
                            powT(root_base, root_order \div sz),
                            powT(root_base, root_order \div sz))

\* void fft_cyclic_convolution(T *dataR, T *data1, T *data2, int size,
\*                             const R& root_base, int root_order)
fft_cyclic_convolution(st, dataR, data1, data2, sz, root_base, root_order) ==
    cyclic_convolution_with(st, dataR, data1, data2, sz,
                            powT(root_base, root_order \div sz),
                            powT(powT(root_base, root_order \div sz), sz - 1))

---------------------------------------------------------------------------
(* convolution and cyclic_convolution of two std::vector<T>.               *)

\* a size loop that stops one doubling early: while (l * 2 < n) l *= 2;
RECURSIVE grow_size_short(_, _)
grow_size_short(l, k) == IF l * 2 < k THEN grow_size_short(l * 2, k) ELSE l

\* int l = 1; while (l < n) l *= 2;
RECURSIVE grow_size(_, _)
grow_size(l, k) == IF l < k THEN grow_size(l * 2, k) ELSE l

\* r.resize(l, e0); u.resize(l, e0); v.resize(l, e0); and the call of
\* fft_cyclic_convolution(&r[0], &u[0], &v[0], l, root_base, root_order);
\* the vector r it leaves.  Instances 1, 2, 3 are u, v, r.
convolve_padded(u, v, l, root_base, root_order) ==
    obj(fft_cyclic_convolution(
            store(<<vector_resize(u, l), vector_resize(v, l), vector_fill(l)>>),
            data(3), data(1), data(2), l, root_base, root_order), 3)

\* std::vector<T> convolution(u_begin, u_end, v_begin, v_end, root_base, root_order)
convolution(u, v, root_base, root_order) ==
    vector_resize(convolve_padded(u, v, grow_size(1, Len(u) + Len(v) - 1),
                                  root_base, root_order),
                  Len(u) + Len(v) - 1)

\* multiple(a, b): the smallest multiple of a that is >= b
multiple(a, b) == ((b + a - 1) \div a) * a

\* for (int i = v_size; i < vv_size; i++) v[i] = v[i - v_size];
RECURSIVE replicate(_, _, _, _)
replicate(v, v_size, vv_size, i) ==
    IF ~(i < vv_size) THEN v
    ELSE replicate([v EXCEPT ![i + 1] = v[i - v_size + 1]], v_size, vv_size, i + 1)

\* for (int i = 1; i < u_size; i++) v[l - i] = v[vv_size - i];
RECURSIVE wrap_tail(_, _, _, _, _)
wrap_tail(v, l, vv_size, u_size, i) ==
    IF ~(i < u_size) THEN v
    ELSE wrap_tail([v EXCEPT ![l - i + 1] = v[vv_size - i + 1]], l, vv_size, u_size, i + 1)

\* a fold that copies from one index too high: r[n - i] = r[u_size - i]
RECURSIVE fold_back_shifted(_, _, _, _)
fold_back_shifted(r, k, u_size, i) ==
    IF ~(i < u_size) THEN r
    ELSE fold_back_shifted([r EXCEPT ![k - i + 1] = r[u_size - i + 1]], k, u_size, i + 1)

\* for (int i = 1; i < u_size; i++) r[n - i] = r[u_size - 1 - i];
RECURSIVE fold_back(_, _, _, _)
fold_back(r, k, u_size, i) ==
    IF ~(i < u_size) THEN r
    ELSE fold_back([r EXCEPT ![k - i + 1] = r[u_size - 1 - i + 1]], k, u_size, i + 1)

\* cyclic_convolution once vv_size and l are known
cyclic_convolution_sized(u, v, vv_size, l, root_base, root_order) ==
    vector_resize(
        fold_back(convolve_padded(
                      u,
                      wrap_tail(replicate(vector_resize(v, l), Len(v), vv_size, Len(v)),
                                l, vv_size, Len(u), 1),
                      l, root_base, root_order),
                  Len(v) + Len(u) - 1, Len(u), 1),
        Len(v) + Len(u) - 1)

\* std::vector<T> cyclic_convolution(u_begin, u_end, v_begin, v_end,
\*                                   root_base, root_order)
cyclic_convolution(u, v, root_base, root_order) ==
    cyclic_convolution_sized(u, v, multiple(Len(v), Len(u)),
                             grow_size(1, multiple(Len(v), Len(u)) + Len(u) - 1),
                             root_base, root_order)

---------------------------------------------------------------------------
(* chinese_remainder for T = int (algorithm/math/modulos.h), with the      *)
(* helpers of base.h and modulo.h it calls.                                *)

\* the loop of gcd_ex: g, h the remainders, xn, xo and yn, yo the
\* coefficients with g = a * xn + b * yn and h = a * xo + b * yo
RECURSIVE gcd_ex_loop(_, _, _, _, _, _)
gcd_ex_loop(g, h, xn, xo, yn, yo) ==
    IF h = 0 THEN <<g, xn, yn>>
    ELSE gcd_ex_loop(h, g - int_div(g, h) * h,
                     xo, xn - int_div(g, h) * xo,
                     yo, yn - int_div(g, h) * yo)

\* gcd_ex(a, b, &x, &y): <<gcd, x, y>> with a * x + b * y = gcd
gcd_ex(a, b) == gcd_ex_loop(a, b, 1, 0, 0, 1)

\* T % T for int: the remainder has the sign of the dividend (b # 0)
int_rem(a, b) == a - int_div(a, b) * b

\* modulo_normalize(v, M): the representative of v in 0 .. M - 1
modulo_normalize(v, M) ==
    IF int_rem(v, M) < 0 THEN int_rem(v, M) + M ELSE int_rem(v, M)

\* modulo_mul(a, b, M) and modulo_add(a, b, M) on normalized a, b
modulo_mul(a, b, M) == int_rem(a * b, M)

modulo_add(a, b, M) == IF a + b >= M THEN a + b - M ELSE a + b

\* lines 37-38 with n = n1 * n2, the moduli not divided by g
chinese_remainder_undivided(t1, t2, n1, n2, g) ==
    <<modulo_add(modulo_mul(t1, n2, n1 * n2), modulo_mul(t2, n1, n1 * n2),
                 n1 * n2),
      n1 * n2>>

\* lines 37-38: t1, t2 of lines 35-36, n1 and n2 already divided by g
chinese_remainder_combine(t1, t2, n1, n2, g) ==
    <<modulo_add(modulo_mul(t1, n2, n1 * n2 * g),
                 modulo_mul(t2, n1, n1 * n2 * g), n1 * n2 * g),
      n1 * n2 * g>>

\* void chinese_remainder(T* a, T* n, T a1, T n1, T a2, T n2): <<*a, *n>>;
\* e is <<g, ni1, ni2>> of line 30
chinese_remainder(a1, n1, a2, n2) ==
    LET e == gcd_ex(n1, n2)
    IN  IF int_rem(a2 - a1, e[1]) # 0 THEN <<0, 0>>
        ELSE chinese_remainder_combine(
                 modulo_mul(a1, modulo_normalize(e[3], n1), n1),
                 modulo_mul(a2, modulo_normalize(e[2], n2), n2),
                 int_div(n1, e[1]), int_div(n2, e[1]), e[1])

---------------------------------------------------------------------------
(* The calls of multiplication on the lengths alone.  A call is            *)
(* <<lr, l1, l2>>; an access <<line, buffer, lo, hi, last>> says that the   *)
(* statement at that line touches buffer[lo .. hi], indices counted from    *)
(* the pointer the routine received (or from the start of a scratch        *)
(* vector), where buffer[0 .. last] is what the routine was given (lr, l1, *)
(* l2) or has allocated (size - 1).                                        *)

\* _mul without line 165
mul_lengths_unclamped(c) ==
    IF c[3] > c[2] THEN <<c[1], Min(c[3], c[1]), Min(c[2], c[1])>>
    ELSE <<c[1], Min(c[2], c[1]), Min(c[3], c[1])>>

\* _mul, lines 162-166: the <<lr, l1, l2>> polynom_mul<T>::impl receives
mul_lengths(c) ==
    IF c[3] > c[2]
    THEN <<Min(c[1], Min(c[3], c[1]) + Min(c[2], c[1])),
           Min(c[3], c[1]), Min(c[2], c[1])>>
    ELSE <<Min(c[1], Min(c[2], c[1]) + Min(c[3], c[1])),
           Min(c[2], c[1]), Min(c[3], c[1])>>

\* _mul, line 164 (_zero, lines 93-95): the indices of pr it sets to zero
mul_zeroed(c) == (Min(c[2], c[1]) + Min(c[3], c[1]) + 1) .. c[1]

\* _mul_long, lines 114-122, with i the index of the outer loop
mul_long_accesses(lr, l1, l2) ==
    {<<121, "pr", 0, lr, lr>>}
    \cup {<<119, "p1", Max(0, i - l2), Min(i, l1), l1>> : i \in 0 .. lr}
    \cup {<<119, "p2", i - Min(i, l1), i - Max(0, i - l2), l2>> : i \in 0 .. lr}

\* int mm_l and int hh_l of lines 145 and 148
karatsuba_mm_l(lr, k) == Min(lr - k, k - 1 + k - 1)

\* hh_l without the cut to mm_l
karatsuba_hh_l_uncut(lr, l1, l2, k) == l1 - k + l2 - k

karatsuba_hh_l(lr, l1, l2, k) == Min(karatsuba_mm_l(lr, k), l1 - k + l2 - k)

\* the _mul calls of _mul_karatsuba, lines 136-137 and 147-151
karatsuba_calls(lr, l1, l2, k) ==
    IF l2 = 0 THEN {}
    ELSE IF l2 < k
    THEN {<<lr - k, l1 - k, l2>>, <<Min(lr, l2 + k - 1), k - 1, l2>>}
    ELSE {<<karatsuba_mm_l(lr, k), k - 1, k - 1>>,
          <<karatsuba_hh_l(lr, l1, l2, k), l1 - k, l2 - k>>,
          <<k - 1 + k - 1, k - 1, k - 1>>}

\* _mul_karatsuba, line 133
karatsuba_scale_accesses(lr, l1, l2) ==
    {<<133, "pr", 0, lr, lr>>, <<133, "p1", 0, lr, l1>>, <<133, "p2", 0, 0, l2>>}

\* _mul_karatsuba, lines 135-139
karatsuba_split1_accesses(lr, l1, l2, k) ==
    {<<135, "MM", 0, lr - k, lr - k>>,
     <<136, "MM", 0, lr - k, lr - k>>, <<136, "p1", k, k + (l1 - k), l1>>,
     <<136, "p2", 0, l2, l2>>,
     <<137, "pr", 0, Min(lr, l2 + k - 1), lr>>, <<137, "p1", 0, k - 1, l1>>,
     <<137, "p2", 0, l2, l2>>,
     <<138, "pr", l2 + k - 1 + 1, lr, lr>>,
     <<139, "pr", k, k + (lr - k), lr>>, <<139, "MM", 0, lr - k, lr - k>>}

\* _mul_karatsuba, lines 141-156
karatsuba_split2_accesses(lr, l1, l2, k, mm_l, hh_l) ==
    {<<141, "p1", 0, k - 1, l1>>, <<141, "S1", 0, k - 1, k - 1>>,
     <<142, "S1", 0, l1 - k, k - 1>>, <<142, "p1", k, k + (l1 - k), l1>>,
     <<143, "p2", 0, k - 1, l2>>, <<143, "S2", 0, k - 1, k - 1>>,
     <<144, "S2", 0, l2 - k, k - 1>>, <<144, "p2", k, k + (l2 - k), l2>>,
     <<146, "MM", 0, mm_l, mm_l>>,
     <<147, "MM", 0, mm_l, mm_l>>, <<147, "S1", 0, k - 1, k - 1>>,
     <<147, "S2", 0, k - 1, k - 1>>,
     <<149, "HH", 0, hh_l, hh_l>>,
     <<150, "HH", 0, hh_l, hh_l>>, <<150, "p1", k, k + (l1 - k), l1>>,
     <<150, "p2", k, k + (l2 - k), l2>>,
     <<151, "pr", 0, k - 1 + k - 1, lr>>, <<151, "p1", 0, k - 1, l1>>,
     <<151, "p2", 0, k - 1, l2>>,
     <<152, "pr", k - 1 + k - 1 + 1, lr, lr>>,
     <<153, "MM", 0, Min(mm_l, k - 1 + k - 1), mm_l>>,
     <<153, "pr", 0, Min(mm_l, k - 1 + k - 1), lr>>,
     <<154, "MM", 0, hh_l, mm_l>>, <<154, "HH", 0, hh_l, hh_l>>,
     <<155, "pr", k, k + mm_l, lr>>, <<155, "MM", 0, mm_l, mm_l>>,
     <<156, "pr", k + k, k + k + (lr - k - k), lr>>,
     <<156, "HH", 0, lr - k - k, hh_l>>}

\* _mul_karatsuba, lines 130-157
karatsuba_accesses(lr, l1, l2, k) ==
    IF l2 = 0 THEN karatsuba_scale_accesses(lr, l1, l2)
    ELSE IF l2 < k THEN karatsuba_split1_accesses(lr, l1, l2, k)
    ELSE karatsuba_split2_accesses(lr, l1, l2, k, karatsuba_mm_l(lr, k),
                                   karatsuba_hh_l(lr, l1, l2, k))

---------------------------------------------------------------------------
(* fraction<T> for T = int (structure/math/fraction.h): a fraction is      *)
(* <<p, q>>.                                                               *)

\* gcd(a, b) of base.h: Euclid's loop on T % T
RECURSIVE gcd(_, _)
gcd(a, b) == IF a = 0 THEN b ELSE gcd(int_rem(b, a), a)

\* reduce() without line 19: the sign stays where it is
reduce_unsigned(f) ==
    IF Abs(gcd(f[1], f[2])) # 1
    THEN <<int_div(f[1], Abs(gcd(f[1], f[2]))), int_div(f[2], Abs(gcd(f[1], f[2])))>>
    ELSE f

\* the sign step of reduce(), line 19
reduce_sign(f) == IF f[2] < 0 THEN <<-f[1], -f[2]>> ELSE f

\* void reduce(), lines 15-20; g is absT(gcd(p, q))
reduce(f) ==
    LET g == Abs(gcd(f[1], f[2]))
    IN  reduce_sign(IF g # 1 THEN <<int_div(f[1], g), int_div(f[2], g)>> ELSE f)

\* fraction(const T &p) and fraction(const T &p, const T &q), lines 12-13
fraction_of(p) == <<p, 1>>

fraction(p, q) == reduce(<<p, q>>)

\* the compound assignments of lines 29-33 on *this = a with the argument
\* f; same says that f is *this, so that f.q read after the assignment of p
\* is read from the object assigned
fraction_assign(o, a, f, same) ==
    LET sum  == <<a[1] * f[2] + f[1] * a[2], a[2]>>
        diff == <<a[1] * f[2] - f[1] * a[2], a[2]>>
        prod == <<a[1] * f[1], a[2]>>
        quot == <<a[1] * f[2], a[2]>>
        arg(b) == IF same THEN b ELSE f
    IN  CASE o = "+=" -> reduce(<<sum[1], sum[2] * arg(sum)[2]>>)
          [] o = "-=" -> reduce(<<diff[1], diff[2] * arg(diff)[2]>>)
          [] o = "*=" -> reduce(<<prod[1], prod[2] * arg(prod)[2]>>)
          [] o = "/=" -> reduce(<<quot[1], quot[2] * f[1]>>)
          [] o = "%=" -> <<0, 1>>

\* the operators of lines 35-40 on *this = a with the argument f
fraction_binary(o, a, f) ==
    CASE o = "+" -> fraction(a[1] * f[2] + f[1] * a[2], a[2] * f[2])
      [] o = "-" -> fraction(a[1] * f[2] - f[1] * a[2], a[2] * f[2])
      [] o = "neg" -> fraction(-a[1], a[2])
      [] o = "*" -> fraction(a[1] * f[1], a[2] * f[2])
      [] o = "/" -> fraction(a[1] * f[2], a[2] * f[1])
      [] o = "%" -> fraction_of(0)

---------------------------------------------------------------------------
(* matrix<T> over the field T = modulo<int, FFT_MODULUS>: a matrix is the  *)
(* sequence a of its rows.  gauss works on                                 *)
(*      [mat |-> rows, inv |-> rows, det |-> T, rank |-> int].             *)

\* row i of identity(sz, e1), columns k .. sz - 1
RECURSIVE identity_row(_, _, _)
identity_row(i, k, sz) ==
    IF k >= sz THEN <<>>
    ELSE <<IF i = k THEN 1 ELSE 0>> \o identity_row(i, k + 1, sz)

\* static matrix identity(int n, T id): rows i .. sz - 1
RECURSIVE identity(_, _)
identity(i, sz) ==
    IF i >= sz THEN <<>> ELSE <<identity_row(i, 0, sz)>> \o identity(i + 1, sz)

\* for (i = rank; i < n && mat.a[i][j] == e0; i++);
RECURSIVE gauss_pivot(_, _, _, _)
gauss_pivot(a, j, i, sz) ==
    IF i < sz /\ a[i + 1][j + 1] = 0 THEN gauss_pivot(a, j, i + 1, sz) ELSE i

\* std::swap(a[i], a[j])
swap_rows(a, i, j) == [a EXCEPT ![i + 1] = a[j + 1], ![j + 1] = a[i + 1]]

\* for (k = 0; k < n; k++) { mat.a[j][k] *= pi; inv.a[j][k] *= pi; }
RECURSIVE gauss_scale(_, _, _, _, _)
gauss_scale(g, j, pi, k, sz) ==
    IF ~(k < sz) THEN g
    ELSE gauss_scale([g EXCEPT !.mat[j + 1][k + 1] = ring_mul(@, pi),
                               !.inv[j + 1][k + 1] = ring_mul(@, pi)],
                     j, pi, k + 1, sz)

\* for (k = 0; k < n; k++) { mat.a[i][k] -= mat.a[j][k] * p; ... }
RECURSIVE gauss_subtract(_, _, _, _, _, _)
gauss_subtract(g, i, j, p, k, sz) ==
    IF ~(k < sz) THEN g
    ELSE gauss_subtract(
             [g EXCEPT !.mat[i + 1][k + 1] = ring_sub(@, ring_mul(g.mat[j + 1][k + 1], p)),
                       !.inv[i + 1][k + 1] = ring_sub(@, ring_mul(g.inv[j + 1][k + 1], p))],
             i, j, p, k + 1, sz)

\* eliminate below: for (i = rank; i < n; i++) { T p = mat.a[i][j]; ... }
RECURSIVE gauss_below(_, _, _, _)
gauss_below(g, j, i, sz) ==
    IF ~(i < sz) THEN g
    ELSE IF g.mat[i + 1][j + 1] = 0 THEN gauss_below(g, j, i + 1, sz)
    ELSE gauss_below(gauss_subtract(g, i, j, g.mat[i + 1][j + 1], 0, sz),
                     j, i + 1, sz)

\* eliminate above: for (i = j - 1; i >= 0; i--) { T p = mat.a[i][j]; ... }
RECURSIVE gauss_above(_, _, _, _)
gauss_above(g, j, i, sz) ==
    IF ~(i >= 0) THEN g
    ELSE IF g.mat[i + 1][j + 1] = 0 THEN gauss_above(g, j, i - 1, sz)
    ELSE gauss_above(gauss_subtract(g, i, j, g.mat[i + 1][j + 1], 0, sz),
                     j, i - 1, sz)

\* lines 176-196 for the column j with the pivot found in row i: g already
\* has rank++
gauss_reduce(g, j, i, sz) ==
    LET g1 == IF i # j
              THEN [g EXCEPT !.mat = swap_rows(@, i, j),
                             !.inv = swap_rows(@, i, j),
                             !.det = ring_sub(0, @)]
              ELSE g
        g2 == [g1 EXCEPT !.det = ring_mul(@, g1.mat[j + 1][j + 1])]
    IN  gauss_below(gauss_scale(g2, j, ring_div(1, g1.mat[j + 1][j + 1]), 0, sz),
                    j, g.rank, sz)

\* for (j = 0; j < n; j++) { ... }, lines 169-197
RECURSIVE gauss_columns(_, _, _)
gauss_columns(g, j, sz) ==
    IF ~(j < sz) THEN g
    ELSE IF gauss_pivot(g.mat, j, g.rank, sz) >= sz
    THEN gauss_columns([g EXCEPT !.det = 0], j + 1, sz)
    ELSE gauss_columns(
             gauss_reduce([g EXCEPT !.rank = @ + 1], j,
                          gauss_pivot(g.mat, j, g.rank, sz), sz),
             j + 1, sz)

\* for (j = n - 1; j >= 0; j--) { eliminate above }, lines 199-209
RECURSIVE gauss_back(_, _, _)
gauss_back(g, j, sz) ==
    IF ~(j >= 0) THEN g
    ELSE gauss_back(gauss_above(g, j, j - 1, sz), j - 1, sz)

\* static int gauss(matrix &mat, matrix &inv, T &det) for n >= 1 rows: what
\* it leaves in mat, inv and det, and the rank it returns
gauss(a) ==
    LET g == gauss_columns([mat |-> a, inv |-> identity(0, Len(a)),
                            det |-> 1, rank |-> 0], 0, Len(a))
    IN  IF g.rank = Len(a) THEN gauss_back(g, Len(a) - 1, Len(a)) ELSE g

---------------------------------------------------------------------------
(* Calls: which instances the arguments pr, p1, p2 of a static operation   *)
(* are.  alias = "none": three instances, pr holding earlier contents;     *)
(* "p1" / "p2": pr is the first / second operand; "both": one instance is   *)
(* pr, p1 and p2 (as in p *= p).                                           *)

Aliases == {"none", "p1", "p2", "both"}

\* what a distinct output instance may hold before the call
EarlierContents == {<<>>, <<7, 7, 7, 7, 7, 7, 7, 7>>}

call_store(a, c1, c2, c0) ==
    store(IF a = "none" THEN <<c1, c2, c0>>
          ELSE IF a = "both" THEN <<c1>> ELSE <<c1, c2>>)

PR(a) == IF a = "none" THEN 3 ELSE IF a = "p2" THEN 2 ELSE 1
P1(a) == 1
P2(a) == IF a = "both" THEN 1 ELSE 2

\* outcomes of a run with undefined behaviour are not constrained
AnyOutcome == Vecs(1)

\* the state after operation o left store s
Outcome(o, a, k, s) ==
    /\ op' = o
    /\ alias' = a
    /\ n' = k
    /\ ub' = s.ub
    /\ val' = s.divs
    /\ IF s.ub THEN res' \in AnyOutcome ELSE res' = obj(s, PR(a))
    /\ UNCHANGED <<x, y, aux>>

Inputs(X, Y) ==
    /\ op = "init"
    /\ x \in X
    /\ y \in Y
    /\ n = 0
    /\ alias = "none"
    /\ res = <<>>
    /\ aux = <<>>
    /\ val = 0
    /\ ub = FALSE

---------------------------------------------------------------------------
(* Division: a / b and a % b on all small operands.                        *)

\* dividends and divisors beyond the enumerated ones: the example of the
\* specification, (x^3 + 1) / (x + 1), and operands with a coefficient that
\* is no unit of the integers
DivDividends == {<<1, 0, 0, 1>>, <<2, -1, 0, 2>>, <<0, 2, 2>>, <<1, 1, 1, 0, 2>>}
DivDivisors == {<<2>>, <<2, 1>>, <<1, 2>>, <<-1, 2, 1>>, <<0, 2, -1>>}

InitDiv == Inputs(Vecs(MaxLen) \cup DivDividends, Vecs(MaxLenY) \cup DivDivisors)

DivAliases == {"none", "p1", "p2"}

DoDiv ==
    \E a \in DivAliases, c0 \in EarlierContents :
        /\ op = "init"
        /\ Outcome("div", a, 0, div(call_store(a, x, y, c0), PR(a), P1(a), P2(a)))

DoMod ==
    \E a \in DivAliases, c0 \in EarlierContents :
        /\ op = "init"
        /\ Outcome("mod", a, 0, mod(call_store(a, x, y, c0), PR(a), P1(a), P2(a)))

\* the two algorithms quot_rem selects from, each called with a divisor
\* that has a non-zero leading coefficient
DoQuotRemLong ==
    \E c0 \in EarlierContents :
        /\ op = "init"
        /\ leading_coeff(y) # 0
        /\ Outcome("quot_rem_long", "none", 0,
                   quot_rem_long(call_store("none", x, y, c0), 3, 1, 2))

DoQuotRemHensel ==
    \E c0 \in EarlierContents :
        /\ op = "init"
        /\ leading_coeff(y) # 0
        /\ Outcome("quot_rem_hensel", "none", 0,
                   quot_rem_hensel(call_store("none", x, y, c0), 3, 1, 2))

\* the state after q = a / b and r = a % b, given the stores sq and sr the two
\* calls leave
OperatorsOutcome(sq, sr) ==
    /\ op' = "operators"
    /\ alias' = "p1"
    /\ ub' = (sq.ub \/ sr.ub)
    /\ IF sq.ub \/ sr.ub THEN res' \in AnyOutcome /\ aux' \in AnyOutcome
       ELSE res' = obj(sq, 1) /\ aux' = obj(sr, 1)
    /\ UNCHANGED <<x, y, n, val>>

\* operator / and operator %: t(*this); t /= rhs; and t(*this); t %= rhs;
\* which run div(t, t, rhs) and mod(t, t, rhs)
DoOperators ==
    /\ op = "init"
    /\ OperatorsOutcome(div(store(<<x, y>>), 1, 1, 2), mod(store(<<x, y>>), 1, 1, 2))

NextDiv == DoDiv \/ DoMod \/ DoOperators \/ DoQuotRemLong \/ DoQuotRemHensel

SpecDiv == InitDiv /\ [][NextDiv]_vars

---------------------------------------------------------------------------
(* Multiplication: mul with and without an explicit lr, and the two raw    *)
(* algorithms called on the operands' whole buffers.                       *)

MulOperands == {<<1, 1>>, <<2, 0, -1, 2>>}

InitMul ==
    Inputs(Vecs(MaxLen) \cup MulOperands, Vecs(MaxLenY) \cup MulOperands \cup {<<1, -1, 1>>})

DoMul ==
    \E lr \in (-1) .. MaxLr, c0 \in EarlierContents :
        /\ op = "init"
        /\ Outcome("mul", "none", lr, mul(call_store("none", x, y, c0), 3, 1, 2, lr))

\* the lengths a raw call on the whole buffers of x and y may pass
RawLr == {lr \in 0 .. (Len(x) + Len(y)) :
             /\ 1 <= Len(y) /\ Len(y) <= Len(x)
             /\ Len(x) - 1 <= lr /\ lr <= Len(x) - 1 + Len(y) - 1}

DoMulLong ==
    \E lr \in RawLr, c0 \in EarlierContents :
        /\ op = "init"
        /\ Outcome("_mul_long", "none", lr,
                   _mul_long(call_store("none", x, y, vector_resize(c0, lr + 1)),
                             data(3), lr, data(1), Len(x) - 1, data(2), Len(y) - 1))

DoMulKaratsuba ==
    \E lr \in RawLr, c0 \in EarlierContents :
        /\ op = "init"
        /\ Outcome("_mul_karatsuba", "none", lr,
                   _mul_karatsuba(call_store("none", x, y, vector_resize(c0, lr + 1)),
                                  data(3), lr, data(1), Len(x) - 1, data(2), Len(y) - 1))

\* _mul on the whole buffers of non-empty x and y, in either order of length
DoMulRaw ==
    \E lr \in 0 .. (MaxLr + 1), c0 \in EarlierContents :
        /\ op = "init"
        /\ Len(x) >= 1 /\ Len(y) >= 1
        /\ Outcome("_mul", "none", lr,
                   _mul(call_store("none", x, y, vector_resize(c0, lr + 1)),
                        data(3), lr, data(1), Len(x) - 1, data(2), Len(y) - 1))

\* the points at which a product is evaluated
EvalPoints == (-2) .. 2

\* (a * b).eval(pt): res is the product, val its value at pt
DoEvalProduct ==
    \E pt \in EvalPoints :
        /\ op = "init"
        /\ op' = "eval_product"
        /\ n' = pt
        /\ res' = operator_mul(x, y)
        /\ val' = eval(operator_mul(x, y), pt)
        /\ UNCHANGED <<x, y, alias, aux, ub>>

NextMul == DoMul \/ DoMulRaw \/ DoMulLong \/ DoMulKaratsuba \/ DoEvalProduct

SpecMul == InitMul /\ [][NextMul]_vars

---------------------------------------------------------------------------
(* Aliasing: add, sub and mul with the output one of the operands.         *)

InitAlias == Inputs(Vecs(MaxLen) \cup MulOperands, Vecs(MaxLenY) \cup MulOperands)

\* "both" needs the two operands to be one instance
CanAlias(a) == a = "both" => x = y

DoAdd ==
    \E a \in Aliases, c0 \in EarlierContents :
        /\ op = "init"
        /\ CanAlias(a)
        /\ Outcome("add", a, 0, add(call_store(a, x, y, c0), PR(a), P1(a), P2(a)))

DoSub ==
    \E a \in Aliases, c0 \in EarlierContents :
        /\ op = "init"
        /\ CanAlias(a)
        /\ Outcome("sub", a, 0, sub(call_store(a, x, y, c0), PR(a), P1(a), P2(a)))

DoMulAliased ==
    \E a \in Aliases, lr \in {-1, 0, 1, MaxLr}, c0 \in EarlierContents :
        /\ op = "init"
        /\ CanAlias(a)
        /\ Outcome("mul", a, lr, mul(call_store(a, x, y, c0), PR(a), P1(a), P2(a), lr))

NextAlias == DoAdd \/ DoSub \/ DoMulAliased

SpecAlias == InitAlias /\ [][NextAlias]_vars

---------------------------------------------------------------------------
(* inverse(L) of one polynomial.                                           *)

InverseOperands == {<<-1, 1, 1, 1, 1>>, <<1, 2, 0, -1>>, <<-1, 2>>, <<2, 1>>}
InverseInputs == Vecs(MaxLen) \cup InverseOperands

\* p.inverse(L) reads c[0] first, which no instance without storage has
inverse_call(c, L) ==
    IF size(c) = 0 THEN [store(<<c, <<>>, <<>>>>) EXCEPT !.ub = TRUE]
    ELSE divided(store(<<c, <<>>, inverse(c, L)>>), inverse_divs(c, L))

InitInverse == Inputs(InverseInputs, {<<>>})

DoInverse ==
    \E L \in 1 .. MaxL :
        /\ op = "init"
        /\ Outcome("inverse", "none", L, inverse_call(x, L))

\* the product the inverse is judged by: p * p.inverse(L)
DoInverseProduct ==
    /\ op = "inverse"
    /\ ~ub
    /\ op' = "inverse_product"
    /\ y' = res
    /\ res' = operator_mul(x, res)
    /\ UNCHANGED <<x, n, alias, aux, val, ub>>

NextInverse == DoInverse \/ DoInverseProduct

SpecInverse == InitInverse /\ [][NextInverse]_vars

---------------------------------------------------------------------------
(* The transforms: x is the caller's data (data1 of a convolution), y its  *)
(* data2, n the size, val the root (root_base of a convolution), res the   *)
(* array the call leaves (dataR of a convolution), aux the other arrays.   *)

MaxFftSize == 8
MaxConvSize == 4

\* the values of the arrays of size k
FftValues(k) == IF k <= MaxConvSize THEN {0, 1, FFT_MODULUS - 1} ELSE {0, 1}

FftOperands == {<<1, 2, 3, 4, 5, 6, 7, 8>>, <<0, 1, 0, 0, 0, 0, 0, 0>>,
                <<16, 0, 5, 0, 0, 11, 3, 2>>,
                <<3, 1, 4, 1, 5, 9>>}

Buffers(k) == [1 .. k -> FftValues(k)] \cup {c \in FftOperands : Len(c) = k}

\* the principal k-th roots of unity of the ring; in a field these are the
\* elements of multiplicative order k
PrincipalRoots(k) ==
    {w \in 1 .. (FFT_MODULUS - 1) :
        /\ powT(w, k) = 1
        /\ \A j \in 1 .. (k - 1) : powT(w, j) # 1}

PowersOfTwo == {1, 2, 4, 8, 16}

\* what a destination array holds before the call
RECURSIVE Stale(_)
Stale(k) == IF k = 0 THEN <<>> ELSE Append(Stale(k - 1), 9)

InitFft ==
    /\ op = "init"
    /\ \E k \in 1 .. MaxFftSize : x \in Buffers(k)
    /\ y = <<>>
    /\ n = Len(x)
    /\ alias = "none"
    /\ res = <<>>
    /\ aux = <<>>
    /\ val = 0
    /\ ub = FALSE

\* the state after a transform with root w left c
Transformed(o, w, c) ==
    /\ op' = o
    /\ val' = w
    /\ res' = c
    /\ UNCHANGED <<x, y, n, alias, aux, ub>>

\* fft(data, size, root) on a copy of x; any size, any root of a power of two
DoFft ==
    /\ op = "init"
    /\ \E w \in PrincipalRoots(n) \cup {2} :
           Transformed("fft", w, fft(x, n, w))

\* fft_rec(dest, src, size, root): src is instance 1, dest instance 2; aux
\* is src after the call
FftRecOutcome(w, s) ==
    /\ op' = "fft_rec"
    /\ val' = w
    /\ res' = obj(s, 2)
    /\ aux' = obj(s, 1)
    /\ UNCHANGED <<x, y, n, alias, ub>>

DoFftRec ==
    /\ op = "init"
    /\ n \in PowersOfTwo
    /\ \E w \in PrincipalRoots(n) :
           FftRecOutcome(w, fft_rec(store(<<x, Stale(n)>>), data(2), data(1), n, w, 1))

\* the inverse transform of lines 98-103 applied to what a transform left:
\* the same transform with root^(size - 1), every element times 1 / size
InverseOutcome(o, c) ==
    /\ op' = o
    /\ aux' = res
    /\ res' = obj(scale(store(<<c>>), data(1), ring_div(1, n % FFT_MODULUS), n, 0), 1)
    /\ UNCHANGED <<x, y, n, alias, val, ub>>

DoFftInverse ==
    /\ op = "fft"
    /\ n \in PowersOfTwo
    /\ val \in PrincipalRoots(n)
    /\ InverseOutcome("fft_inverse", fft(res, n, powT(val, n - 1)))

DoFftRecInverse ==
    /\ op = "fft_rec"
    /\ InverseOutcome("fft_rec_inverse",
                      obj(fft_rec(store(<<res, Stale(n)>>), data(2), data(1), n,
                                  powT(val, n - 1), 1), 2))

\* the second operands of a convolution of size k
ConvOperands(k) ==
    IF k <= MaxConvSize THEN Buffers(k) ELSE {c \in FftOperands : Len(c) = k}

\* the state after fft_cyclic_convolution left store s; instances 1, 2, 3 are
\* the arrays of data1, data2 and dataR; n becomes root_order
Convolved(v, w, k, s) ==
    /\ op' = "fft_cyclic_convolution"
    /\ y' = v
    /\ val' = w
    /\ n' = k
    /\ res' = obj(s, 3)
    /\ aux' = obj(s, 1) \o obj(s, 2)
    /\ UNCHANGED <<x, alias, ub>>

\* fft_cyclic_convolution(dataR, data1, data2, size, root_base, root_order)
\* with root_order = size or 2 * size
DoCyclicConvolution ==
    /\ op = "init"
    /\ n \in PowersOfTwo
    /\ \E k \in {n, 2 * n} \cap PowersOfTwo :
           \E w \in PrincipalRoots(k), v \in ConvOperands(n) :
               Convolved(v, w, k,
                         fft_cyclic_convolution(store(<<x, v, Stale(n)>>),
                                                data(3), data(1), data(2), n, w, k))

NextFft ==
    DoFft \/ DoFftRec \/ DoFftInverse \/ DoFftRecInverse \/ DoCyclicConvolution

SpecFft == InitFft /\ [][NextFft]_vars

---------------------------------------------------------------------------
(* The vector convolutions: x is u, y is v, n the root_order, val the      *)
(* root_base, res the vector returned.                                     *)

MaxConvLen == 4

ConvVectors ==
    UNION {[1 .. k -> {0, 1}] : k \in 1 .. MaxConvLen}
    \cup {<<5>>, <<16, 3>>, <<1, 0, 16>>, <<2, 16, 9>>, <<1, 2, 3, 4, 5>>,
          <<2, 0, 0, 7, 1, 3>>, <<3, 1, 4, 1, 5, 9, 2, 6>>}

InitConv ==
    /\ op = "init"
    /\ x \in ConvVectors
    /\ y \in ConvVectors
    /\ n = 0
    /\ alias = "none"
    /\ res = <<>>
    /\ aux = <<>>
    /\ val = 0
    /\ ub = FALSE

\* the orders a caller may pass for transforms of size l: l itself and 2 l,
\* as far as the ring has roots of that order
RootOrders(l) == {k \in {l, 2 * l} : PrincipalRoots(k) # {}}

\* the state after a convolution with root_base w of order k returned c
Returned(o, w, k, c) ==
    /\ op' = o
    /\ val' = w
    /\ n' = k
    /\ res' = c
    /\ UNCHANGED <<x, y, alias, aux, ub>>

DoConvolution ==
    /\ op = "init"
    /\ \E k \in RootOrders(grow_size(1, Len(x) + Len(y) - 1)) :
           \E w \in PrincipalRoots(k) :
               Returned("convolution", w, k, convolution(x, y, w, k))

DoCyclicConvolutionOfLists ==
    /\ op = "init"
    /\ \E k \in RootOrders(grow_size(1, multiple(Len(y), Len(x)) + Len(x) - 1)) :
           \E w \in PrincipalRoots(k) :
               Returned("cyclic_convolution", w, k, cyclic_convolution(x, y, w, k))

NextConv == DoConvolution \/ DoCyclicConvolutionOfLists

SpecConv == InitConv /\ [][NextConv]_vars

---------------------------------------------------------------------------
(* chinese_remainder: x is <<a1, n1>>, y is <<a2, n2>>, res the <<a, n>>   *)
(* the call leaves, val the value it returns.                              *)

MaxModulus == 12

\* the residues <<a, m>> with 0 <= a < m
Residues == {r \in (0 .. MaxModulus - 1) \X (1 .. MaxModulus) : r[1] < r[2]}

InitCrt ==
    /\ op = "init"
    /\ x \in Residues
    /\ y \in Residues
    /\ n = 0
    /\ alias = "none"
    /\ res = <<>>
    /\ aux = <<>>
    /\ val = 0
    /\ ub = FALSE

\* chinese_remainder(&a, &n, a1, n1, a2, n2) with a and n fresh
DoChineseRemainder ==
    /\ op = "init"
    /\ op' = "chinese_remainder"
    /\ res' = chinese_remainder(x[1], x[2], y[1], y[2])
    /\ UNCHANGED <<x, y, n, alias, aux, val, ub>>

\* chinese_remainder(&ar, &nr, a, n): *ar, *nr hold a1, n1 and the result
DoChineseRemainderInPlace ==
    /\ op = "init"
    /\ op' = "chinese_remainder_in_place"
    /\ alias = "none"
    /\ alias' = "p1"
    /\ res' = chinese_remainder(x[1], x[2], y[1], y[2])
    /\ UNCHANGED <<x, y, n, aux, val, ub>>

\* a = chinese_remainder(a1, n1, a2, n2)
DoChineseRemainderValue ==
    /\ op = "init"
    /\ op' = "chinese_remainder_value"
    /\ val' = chinese_remainder(x[1], x[2], y[1], y[2])[1]
    /\ UNCHANGED <<x, y, n, alias, res, aux, ub>>

NextCrt ==
    \/ DoChineseRemainder
    \/ DoChineseRemainderInPlace
    \/ DoChineseRemainderValue

SpecCrt == InitCrt /\ [][NextCrt]_vars

---------------------------------------------------------------------------
(* The call tree of a multiplication: x is the <<lr, l1, l2>> of the       *)
(* routine op is in, y the arguments of the _mul call that led there, n    *)
(* the number of _mul calls above it, aux the indices of pr that _mul has  *)
(* zeroed, res the accesses of the routine.                                *)

MaxCallLen == 4

\* lengths around the threshold of polynom_mul<T>::impl and far above it
LongLengths == {KARATSUBA_MIN_L2 - 1, KARATSUBA_MIN_L2, KARATSUBA_MIN_L2 + 2,
                2 * KARATSUBA_MIN_L2 + 3, 4 * KARATSUBA_MIN_L2 + 8}

CallLengths == (0 .. MaxCallLen) \cup LongLengths

CallResults == (0 .. 2 * MaxCallLen) \cup LongLengths
                   \cup {a + b : a \in LongLengths, b \in {0, 1, KARATSUBA_MIN_L2}}

InitCalls ==
    /\ op = "init"
    /\ x \in CallResults \X CallLengths \X CallLengths
    /\ y = <<>>
    /\ n = 0
    /\ alias = "none"
    /\ res = {}
    /\ aux = {}
    /\ val = 0
    /\ ub = FALSE

\* the state in polynom_mul<T>::impl after _mul was called with c
Delegated(c, depth) ==
    /\ op' = "impl"
    /\ x' = mul_lengths(c)
    /\ y' = c
    /\ n' = depth
    /\ aux' = mul_zeroed(c)
    /\ res' = {}
    /\ UNCHANGED <<alias, val, ub>>

\* _mul(pr, lr, p1, l1, p2, l2) called by mul or by a user
DoMulCall ==
    /\ op = "init"
    /\ Delegated(x, 1)

\* polynom_mul<T>::impl, lines 378-382
DoImplLong ==
    /\ op = "impl"
    /\ x[3] < KARATSUBA_MIN_L2
    /\ op' = "_mul_long"
    /\ res' = mul_long_accesses(x[1], x[2], x[3])
    /\ UNCHANGED <<x, y, n, alias, aux, val, ub>>

DoImplKaratsuba ==
    /\ op = "impl"
    /\ ~(x[3] < KARATSUBA_MIN_L2)
    /\ op' = "_mul_karatsuba"
    /\ res' = karatsuba_accesses(x[1], x[2], x[3], (x[2] \div 2) + 1)
    /\ UNCHANGED <<x, y, n, alias, aux, val, ub>>

\* _mul_karatsuba called by a user, as its comment at line 126 asks
DoKaratsubaCall ==
    /\ op = "init"
    /\ 0 <= x[3] /\ x[3] <= x[2] /\ x[2] <= x[1] /\ x[1] <= x[2] + x[3]
    /\ op' = "_mul_karatsuba"
    /\ res' = karatsuba_accesses(x[1], x[2], x[3], (x[2] \div 2) + 1)
    /\ UNCHANGED <<x, y, n, alias, aux, val, ub>>

\* one of the _mul calls of _mul_karatsuba
DoKaratsubaMul ==
    /\ op = "_mul_karatsuba"
    /\ \E c \in karatsuba_calls(x[1], x[2], x[3], (x[2] \div 2) + 1) :
           Delegated(c, n + 1)

NextCalls ==
    \/ DoMulCall
    \/ DoImplLong
    \/ DoImplKaratsuba
    \/ DoKaratsubaCall
    \/ DoKaratsubaMul

SpecCalls == InitCalls /\ [][NextCalls]_vars

---------------------------------------------------------------------------
(* The loop of inverse(L), pass by pass: x is the receiver, n is L, res is *)
(* r, val the working precision l of the next pass, aux the precision of   *)
(* the last pass and the number of passes made.                            *)

MaxNewtonL == 5

NewtonOperands ==
    {c \in Vecs(MaxLen) : size(c) > 0 /\ c[1] = id_coeff}
    \cup {<<1, 1, -1, 1, 1>>, <<1, -1, 0, 0, 1, 1>>, <<1, 0, 0, 0, 0, 1>>}

InitNewton == Inputs(NewtonOperands, {<<>>})

\* line 188: polynom r{ id_coeff() }, t; and l = 1
DoInverseBegin ==
    \E L \in 1 .. MaxNewtonL :
        /\ op = "init"
        /\ op' = "inverse_loop"
        /\ n' = L
        /\ res' = <<id_coeff>>
        /\ val' = 1
        /\ aux' = <<0, 0>>
        /\ UNCHANGED <<x, y, alias, ub>>

\* lines 189-198: one pass of the loop, and l *= 2
DoInversePass ==
    /\ op = "inverse_loop"
    /\ val < n * 2
    /\ res' = inverse_step(x, res, n, val)
    /\ val' = val * 2
    /\ aux' = <<val, aux[2] + 1>>
    /\ UNCHANGED <<op, x, y, n, alias, ub>>

\* line 199: return r
DoInverseReturn ==
    /\ op = "inverse_loop"
    /\ ~(val < n * 2)
    /\ op' = "inverse_returned"
    /\ UNCHANGED <<x, y, n, alias, res, aux, val, ub>>

NextNewton == DoInverseBegin \/ DoInversePass \/ DoInverseReturn

SpecNewton == InitNewton /\ [][NextNewton]_vars

---------------------------------------------------------------------------
(* The life of one fraction<int>: x is <<p, q>> as given to the            *)
(* constructor, res the fraction stored, y the argument of the last        *)
(* operator, n the number of operators applied.                            *)

MaxNumerator == 4
MaxFractionOps == 2
MaxStored == 40

\* numerators and non-zero denominators a caller constructs fractions from
FractionArguments ==
    (((-MaxNumerator) .. MaxNumerator) \X (((-MaxNumerator) .. MaxNumerator) \ {0}))
    \cup {<<6, 4>>, <<6, -4>>, <<-10, -15>>}

\* arguments of the operators, as the constructor stores them: -2/3, 0/1
\* and 3/2
OperatorArguments == {fraction(-2, 3), fraction(0, -5), fraction(6, 4)}

InitFraction ==
    /\ op = "init"
    /\ x \in FractionArguments
    /\ y = <<>>
    /\ n = 0
    /\ alias = "none"
    /\ res = <<>>
    /\ aux = <<>>
    /\ val = 0
    /\ ub = FALSE

DoFraction ==
    /\ op = "init"
    /\ op' = "fraction"
    /\ res' = fraction(x[1], x[2])
    /\ UNCHANGED <<x, y, n, alias, aux, val, ub>>

DoFractionOf ==
    /\ op = "init"
    /\ x[2] = 1
    /\ op' = "fraction_of"
    /\ res' = fraction_of(x[1])
    /\ UNCHANGED <<x, y, n, alias, aux, val, ub>>

\* the fraction is stored and small enough for one more operator
Operable ==
    /\ op # "init"
    /\ n < MaxFractionOps
    /\ Abs(res[1]) <= MaxStored /\ res[2] <= MaxStored

\* the state after the operator o with the argument f stored r
Applied(o, a, f, r) ==
    /\ op' = o
    /\ alias' = a
    /\ y' = f
    /\ res' = r
    /\ n' = n + 1
    /\ UNCHANGED <<x, aux, val, ub>>

\* t o f with another fraction f, and t o t
AssignOp(o, nonzero) ==
    /\ Operable
    /\ \/ \E f \in OperatorArguments :
              /\ nonzero => f[1] # 0
              /\ Applied(o, "none", f, fraction_assign(o, res, f, FALSE))
       \/ /\ nonzero => res[1] # 0
          /\ Applied(o, "p1", res, fraction_assign(o, res, res, TRUE))

\* t = t o f
BinaryOp(o, nonzero) ==
    /\ Operable
    /\ \E f \in OperatorArguments \cup {res} :
           /\ nonzero => f[1] # 0
           /\ Applied(o, "none", f, fraction_binary(o, res, f))

DoFractionAddAssign == AssignOp("+=", FALSE)
DoFractionSubAssign == AssignOp("-=", FALSE)
DoFractionMulAssign == AssignOp("*=", FALSE)
DoFractionDivAssign == AssignOp("/=", TRUE)
DoFractionModAssign == AssignOp("%=", FALSE)
DoFractionAdd == BinaryOp("+", FALSE)
DoFractionSub == BinaryOp("-", FALSE)
DoFractionNeg == BinaryOp("neg", FALSE)
DoFractionMul == BinaryOp("*", FALSE)
DoFractionDiv == BinaryOp("/", TRUE)
DoFractionMod == BinaryOp("%", FALSE)

NextFraction ==
    \/ DoFraction
    \/ DoFractionOf
    \/ DoFractionAddAssign
    \/ DoFractionSubAssign
    \/ DoFractionMulAssign
    \/ DoFractionDivAssign
    \/ DoFractionModAssign
    \/ DoFractionAdd
    \/ DoFractionSub
    \/ DoFractionNeg
    \/ DoFractionMul
    \/ DoFractionDiv
    \/ DoFractionMod

SpecFraction == InitFraction /\ [][NextFraction]_vars

---------------------------------------------------------------------------
(* Square matrices: x is the matrix, val what rank() or det() returns, res *)
(* what inverse() returns.                                                 *)

MaxEntry == 1

\* the numbers of rows of the matrices
MatrixSizes == {1, 2, 3}

\* the rows of length k and the matrices of k rows over 0 .. MaxEntry
MatrixRows(k) == [1 .. k -> 0 .. MaxEntry]

Matrices == UNION {[1 .. k -> MatrixRows(k)] : k \in MatrixSizes}

InitMatrix ==
    /\ op = "init"
    /\ x \in Matrices
    /\ y = <<>>
    /\ n = Len(x)
    /\ alias = "none"
    /\ res = <<>>
    /\ aux = <<>>
    /\ val = 0
    /\ ub = FALSE

\* int rank() const, T det() const and matrix inverse() const: gauss on a
\* copy of *this
DoMatrixRank ==
    /\ op = "init"
    /\ op' = "rank"
    /\ val' = gauss(x).rank
    /\ UNCHANGED <<x, y, n, alias, res, aux, ub>>

DoMatrixDet ==
    /\ op = "init"
    /\ op' = "det"
    /\ val' = gauss(x).det
    /\ UNCHANGED <<x, y, n, alias, res, aux, ub>>

DoMatrixInverse ==
    /\ op = "init"
    /\ op' = "inverse"
    /\ res' = gauss(x).inv
    /\ UNCHANGED <<x, y, n, alias, aux, val, ub>>

NextMatrix == DoMatrixRank \/ DoMatrixDet \/ DoMatrixInverse

SpecMatrix == InitMatrix /\ [][NextMatrix]_vars

---------------------------------------------------------------------------
(* The life cycle of one instance: x holds its coefficients before the     *)
(* last operation, res after it; y is the operand of an in-place operator. *)

InRange(c) == size(c) <= MaxSize /\ \A i \in 1 .. Len(c) : c[i] \in Coeffs

RhsOperands == Vecs(1) \cup {<<0, 1>>, <<1, 1>>, <<1, 0>>}

Init ==
    /\ op = "construct"
    /\ x = <<>>
    /\ y = <<>>
    /\ n = 0
    /\ alias = "none"
    /\ res \in Vecs(MaxLenY)
    /\ aux = <<>>
    /\ val = 0
    /\ ub = FALSE

\* the instance goes from res to c by operation o with integer argument k,
\* T argument or result v and right-hand side rhs
Step(o, k, v, rhs, c) ==
    /\ op' = o
    /\ x' = res
    /\ n' = k
    /\ val' = v
    /\ y' = rhs
    /\ res' = c
    /\ UNCHANGED <<alias, aux, ub>>

\* const T& at(int index) const
DoAt ==
    \E i \in (-1) .. MaxSize : Step("at", i, at(res, i), <<>>, res)

\* const T& operator [] (int index) const { return at(index); }
DoIndexConst ==
    \E i \in (-1) .. MaxSize : Step("index_const", i, at(res, i), <<>>, res)

\* p[i] = v through T& operator [] (int index)
DoIndexWrite ==
    \E i \in 0 .. (MaxSize - 1), v \in Coeffs :
        Step("index_write", i, v, <<>>, index_write(res, i, v))

DoResize ==
    \E sz \in 0 .. MaxSize : Step("resize", sz, 0, <<>>, resize(res, sz))

DoReserve ==
    \E sz \in 0 .. MaxSize : Step("reserve", sz, 0, <<>>, reserve(res, sz))

DoShrinkToFit == Step("shrink_to_fit", 0, 0, <<>>, shrink_to_fit(res))

\* p += rhs, p -= rhs, p *= rhs, while the coefficients stay in range
DoAddAssign ==
    \E rhs \in RhsOperands :
        /\ InRange(obj(add(store(<<res, rhs>>), 1, 1, 2), 1))
        /\ Step("+=", 0, 0, rhs, obj(add(store(<<res, rhs>>), 1, 1, 2), 1))

DoSubAssign ==
    \E rhs \in RhsOperands :
        /\ InRange(obj(sub(store(<<res, rhs>>), 1, 1, 2), 1))
        /\ Step("-=", 0, 0, rhs, obj(sub(store(<<res, rhs>>), 1, 1, 2), 1))

DoMulAssign ==
    \E rhs \in RhsOperands :
        /\ InRange(obj(mul(store(<<res, rhs>>), 1, 1, 2, -1), 1))
        /\ Step("*=", 0, 0, rhs, obj(mul(store(<<res, rhs>>), 1, 1, 2, -1), 1))

Next ==
    \/ DoAt \/ DoIndexConst \/ DoIndexWrite
    \/ DoResize \/ DoReserve \/ DoShrinkToFit
    \/ DoAddAssign \/ DoSubAssign \/ DoMulAssign

Spec == Init /\ [][Next]_vars

---------------------------------------------------------------------------
(* Properties of the accessors, checked on the life cycle Spec.            *)

\* two coefficient vectors with the same length and the same coefficients
SameCoefficients(a, b) ==
    /\ Len(a) = Len(b)
    /\ \A i \in 1 .. Len(a) : a[i] = b[i]

\* the largest index >= 1 of a coefficient different from zero, 0 if none
DegreeOf(c) ==
    LET nz == {i \in 1 .. (Len(c) - 1) : c[i + 1] # 0}
    IN  IF nz = {} THEN 0 ELSE CHOOSE i \in nz : \A j \in nz : j <= i

HasDegree(c) ==
    /\ deg(c) = DegreeOf(c)
    /\ 0 <= deg(c)
    /\ deg(c) <= Max(size(c) - 1, 0)

\* C9: deg() is the largest index i >= 1 whose coefficient is not zero, and
\* 0 when there is none (empty storage, only zeros, or a constant), so that
\* 0 <= deg() <= max(size() - 1, 0); checked for the instance before and
\* after every operation and for the operand of the in-place operators.
C9_Deg == HasDegree(x) /\ HasDegree(res) /\ HasDegree(y)

\* a write of zero at the top index left storage longer than deg() + 1
C9_Witness ==
    /\ op = "index_write"
    /\ n = 2 /\ val = 0
    /\ size(res) = 3
    /\ res[2] # 0
    /\ deg(res) = 1

\* C10: at(i) and the const operator[] return the zero coefficient for i < 0
\* and for i >= size() and leave the storage as it was; a write through the
\* mutable operator[] at i >= size() grows the storage to i + 1, keeps the
\* old coefficients, fills the gap with zeros and stores the value at i.
C10_OutOfRange ==
    /\ (op \in {"at", "index_const"} /\ (n < 0 \/ n >= size(x)))
        => (val = ZERO_COEFF /\ SameCoefficients(res, x))
    /\ (op = "index_write" /\ n >= size(x))
        => /\ size(res) = n + 1
           /\ \A i \in 0 .. (size(x) - 1) : res[i + 1] = x[i + 1]
           /\ \A i \in size(x) .. (n - 1) : res[i + 1] = ZERO_COEFF
           /\ res[n + 1] = val

\* a read past the end of an instance whose last coefficient is not zero
C10_Witness ==
    /\ op = "at"
    /\ size(x) = 2
    /\ x[2] # 0
    /\ n = 2
    /\ val = 0

---------------------------------------------------------------------------
(* Properties of multiplication, checked on SpecMul.                       *)

\* sum of a[j] * b[i - j] for j = 0 .. k, coefficients outside the storage
\* being zero
RECURSIVE ConvolutionSum(_, _, _, _)
ConvolutionSum(a, b, i, k) ==
    IF k < 0 THEN 0
    ELSE at(a, k) * at(b, i - k) + ConvolutionSum(a, b, i, k - 1)

\* c holds exactly the coefficients 0 .. lr of the product a * b
IsProduct(c, a, b, lr) ==
    /\ size(c) = lr + 1
    /\ \A i \in 0 .. lr : c[i + 1] = ConvolutionSum(a, b, i, i)

\* C1: mul(pr, p1, p2, lr), and the raw _mul it delegates to, leave in pr
\* exactly lr + 1 coefficients, pr[i] being the sum over j of p1[j] * p2[i-j]
\* for every i in 0 .. lr, with lr = deg(p1) + deg(p2) when no lr >= 0 is
\* given: the product is cut when lr is below l1 + l2 and continued with
\* zeros when it is above, and the order of the operands' lengths does not
\* matter.  {1, 1} * {1, 1} is {1, 2, 1}.
C1_MulContract ==
    /\ op = "mul" => IsProduct(res, x, y, IF n < 0 THEN deg(x) + deg(y) ELSE n)
    /\ op = "_mul" => IsProduct(res, x, y, n)
    /\ (op = "mul" /\ x = <<1, 1>> /\ y = <<1, 1>> /\ n < 0)
        => SameCoefficients(res, <<1, 2, 1>>)

\* a product of a shorter by a longer operand, continued with zeros above
\* degree 3 in storage that held other coefficients before
C1_Witness ==
    /\ op = "mul"
    /\ x = <<1, 1>>
    /\ y = <<1, -1, 1>>
    /\ n = MaxLr
    /\ SameCoefficients(res, <<1, 0, 0, 1>>)

\* the raw Karatsuba call and the schoolbook call on the same operands
LongProduct ==
    obj(_mul_long(call_store("none", x, y, vector_fill(n + 1)),
                  data(3), n, data(1), size(x) - 1, data(2), size(y) - 1), 3)

\* C5: for 0 <= l2 <= l1 <= lr <= l1 + l2, _mul_karatsuba writes the same
\* lr + 1 coefficients as _mul_long, in the case l2 = 0, in the case
\* l2 < k and in the case l2 >= k, with k = l1 / 2 + 1, cut products
\* included.
C5_KaratsubaIsLong ==
    op = "_mul_karatsuba" => SameCoefficients(res, LongProduct)

\* the case l2 >= k (l1 = l2 = 2, k = 2) with the product cut at lr = 3
C5_Witness ==
    /\ op = "_mul_karatsuba"
    /\ size(x) = 3 /\ size(y) = 3
    /\ n = 3
    /\ res[4] # 0 /\ res[1] # 0

---------------------------------------------------------------------------
(* Properties of calls whose output is one of the inputs, on SpecAlias.    *)

\* what the operation of the state leaves in an output instance that is
\* distinct from both inputs and held c0 before
DistinctResult(c0) ==
    IF op = "add" THEN obj(add(call_store("none", x, y, c0), 3, 1, 2), 3)
    ELSE IF op = "sub" THEN obj(sub(call_store("none", x, y, c0), 3, 1, 2), 3)
    ELSE obj(mul(call_store("none", x, y, c0), 3, 1, 2, n), 3)

\* c is x + sgn * y on the coefficients 0 .. max(deg(x), deg(y))
IsSum(c, sgn) ==
    /\ size(c) = Max(deg(x), deg(y)) + 1
    /\ \A i \in 0 .. (size(c) - 1) : c[i + 1] = at(x, i) + sgn * at(y, i)

\* C6: add, sub and mul give the same result when pr is the instance p1,
\* the instance p2, or both (p1 and p2 being one instance), as when pr is
\* distinct from the inputs: the sum, the difference, the product cut or
\* continued to lr.
C6_AliasSafe ==
    op \in {"add", "sub", "mul"} =>
        /\ \A c0 \in EarlierContents : SameCoefficients(res, DistinctResult(c0))
        /\ op = "add" => IsSum(res, 1)
        /\ op = "sub" => IsSum(res, -1)
        /\ op = "mul" => IsProduct(res, x, y, IF n < 0 THEN deg(x) + deg(y) ELSE n)

\* p *= p on 2 - x^2 + 2 x^3, every input coefficient being read after
\* output coefficients were written
C6_Witness ==
    /\ op = "mul"
    /\ alias = "both"
    /\ x = <<2, 0, -1, 2>>
    /\ n < 0
    /\ SameCoefficients(res, <<4, 0, -4, 8, 1, -4, 4>>)

---------------------------------------------------------------------------
(* Properties of division, checked on SpecDiv.                             *)

\* the units of the integers
IsUnit(d) == d = 1 \/ d = -1

\* q * b + r through the operators * and +
Recombined(q, b, r) == operator_add(operator_mul(q, b), r)

\* quotient and remainder in the packed output of quot_rem_long and
\* quot_rem_hensel: the remainder in 0 .. l2 - 1, the quotient from l2 on
PackedQuotient(c, l1, l2) ==
    IF l1 < l2 THEN <<>> ELSE SubSeq(reserve(c, l1 + 1), l2 + 1, l1 + 1)
PackedRemainder(c, l1, l2) == IF l1 < l2 THEN c ELSE resize(c, l2)

\* C2: when the leading coefficient of b is invertible, q = a / b and
\* r = a % b satisfy a == q * b + r as polynomials, and so do the quotient
\* and the remainder that the long and the Hensel routine each leave;
\* (x^3 + 1) / (x + 1) is {1, -1, 1} with a remainder equal to {0}.
C2_DivisionIdentity ==
    /\ (op = "operators" /\ ~ub /\ IsUnit(leading_coeff(y)))
        => cmp(Recombined(res, y, aux), x) = 0
    /\ (op \in {"quot_rem_long", "quot_rem_hensel"} /\ ~ub /\ IsUnit(leading_coeff(y)))
        => cmp(Recombined(PackedQuotient(res, deg(x), deg(y)), y,
                          PackedRemainder(res, deg(x), deg(y))), x) = 0
    /\ (op = "operators" /\ x = <<1, 0, 0, 1>> /\ y = <<1, 1>>)
        => SameCoefficients(res, <<1, -1, 1>>) /\ cmp(aux, <<0>>) = 0

\* 2 - x + 2 x^3 by -1 + 2 x + x^2, with a remainder that is not zero
C2_Witness ==
    /\ op = "operators"
    /\ x = <<2, -1, 0, 2>>
    /\ y = <<-1, 2, 1>>
    /\ SameCoefficients(res, <<-4, 2>>)
    /\ SameCoefficients(aux, <<-2, 9>>)

\* what quot_rem_long leaves in a fresh pr for the operands of the state
LongResult == obj(quot_rem_long(call_store("none", x, y, <<>>), 3, 1, 2), 3)

\* C27: when the leading coefficient of p2 is invertible, quot_rem_hensel
\* and quot_rem_long leave the same polynomial in pr, the remainder in the
\* coefficients 0 .. deg(p2) - 1 and the quotient in deg(p2) .. deg(p1);
\* when deg(p1) < deg(p2) or p2 is a monic monomial x^k, both leave p1.
C27_HenselIsLong ==
    (op \in {"quot_rem_long", "quot_rem_hensel"} /\ IsUnit(leading_coeff(y))) =>
        /\ ~ub
        /\ cmp(res, LongResult) = 0
        /\ cmp(Recombined(PackedQuotient(res, deg(x), deg(y)), y,
                          PackedRemainder(res, deg(x), deg(y))), x) = 0
        /\ deg(PackedRemainder(res, deg(x), deg(y))) <= Max(deg(y) - 1, deg(x))
        /\ (deg(x) < deg(y) \/ is_power(y)) => res = x

\* 2 - x + 2 x^3 by -1 + 2 x + x^2 through the Hensel routine: remainder
\* -2 + 9 x in the coefficients 0, 1 and quotient -4 + 2 x in 2, 3
C27_Witness ==
    /\ op = "quot_rem_hensel"
    /\ x = <<2, -1, 0, 2>>
    /\ y = <<-1, 2, 1>>
    /\ SameCoefficients(res, <<-2, 9, -4, 2>>)

\* a % b was taken, by the operator or by mod into an instance that is not b
RemainderTaken ==
    /\ ~ub
    /\ IsUnit(leading_coeff(y))
    /\ \/ op = "operators"
       \/ op = "mod" /\ alias \in {"none", "p1"}

Remainder == IF op = "operators" THEN aux ELSE res

\* C3: the remainder r = a % b has deg(r) < deg(b) when deg(b) >= 1; when
\* b is a constant that is not zero, r has no coefficients at all, which is
\* the zero polynomial, and deg(r) = 0 = deg(b).
C3_RemainderDegree ==
    RemainderTaken =>
        /\ deg(y) >= 1 => deg(Remainder) < deg(y)
        /\ deg(y) = 0 => (size(Remainder) = 0 /\ deg(Remainder) = 0)
        /\ size(Remainder) <= Max(size(x), deg(y))

\* a remainder of degree 1 from a divisor of degree 2
C3_Witness ==
    /\ op = "operators"
    /\ ~ub
    /\ IsUnit(leading_coeff(y))
    /\ deg(y) = 2
    /\ deg(x) = 3
    /\ deg(aux) = 1

\* C3 as stated: deg(r) < deg(b) for every b with an invertible leading
\* coefficient, constants b that are not zero included.
C3_AsStated == RemainderTaken => deg(Remainder) < deg(y)

\* what div or mod leaves in an output instance distinct from both inputs
DistinctQuotRem(c0) ==
    IF op = "div" THEN div(call_store("none", x, y, c0), 3, 1, 2)
    ELSE mod(call_store("none", x, y, c0), 3, 1, 2)

\* the result in the state is the result into a distinct instance
AsDistinct ==
    \A c0 \in EarlierContents :
        /\ ub = DistinctQuotRem(c0).ub
        /\ ~ub => SameCoefficients(res, obj(DistinctQuotRem(c0), 3))

\* C7: div and mod give the same result when pr is the dividend instance p1
\* as when pr is distinct from both inputs.
C7_AliasDividend ==
    (op \in {"div", "mod"} /\ alias = "p1") => AsDistinct

\* (x^3 + 1) / (x + 1) computed into the dividend
C7_Witness ==
    /\ op = "div"
    /\ alias = "p1"
    /\ x = <<1, 0, 0, 1>>
    /\ y = <<1, 1>>
    /\ SameCoefficients(res, <<1, -1, 1>>)

\* C8: div and mod with pr the divisor instance p2 give the result of the
\* call into a distinct instance when deg(p1) < deg(p2): div leaves no
\* coefficients and mod leaves the coefficients of p1.
C8_AliasDivisor ==
    (op \in {"div", "mod"} /\ alias = "p2" /\ deg(x) < deg(y)) =>
        /\ AsDistinct
        /\ op = "div" => size(res) = 0
        /\ op = "mod" => SameCoefficients(res, x)

\* mod into the divisor, the dividend having storage above its degree
C8_Witness ==
    /\ op = "mod"
    /\ alias = "p2"
    /\ x = <<1, 0>>
    /\ y = <<0, 1>>
    /\ SameCoefficients(res, <<1, 0>>)

\* C8 as stated: div and mod give the same result when pr is the divisor
\* instance p2 as when pr is distinct from both inputs.
C8_AsStated ==
    (op \in {"div", "mod"} /\ alias = "p2") => AsDistinct

---------------------------------------------------------------------------
(* Properties of inverse, checked on SpecInverse.                          *)

\* C4: for p whose constant term c[0] is invertible, 1 or another unit,
\* r = p.inverse(L) satisfies p * r == 1 modulo x^L: the product has 1 at
\* index 0 and zero at the indices 1 .. L - 1.
C4_InverseProduct ==
    (op = "inverse_product" /\ IsUnit(x[1])) =>
        /\ at(res, 0) = id_coeff
        /\ \A i \in 1 .. (n - 1) : at(res, i) = ZERO_COEFF

\* the inverse of -1 + x + x^2 to precision 4, whose constant term is the
\* unit -1, and a product with coefficients from index L on
C4_Witness ==
    /\ op = "inverse_product"
    /\ x = <<-1, 1, 1>>
    /\ n = 4
    /\ SameCoefficients(y, <<-1, -1, -2, -3>>)
    /\ deg(res) >= 4

---------------------------------------------------------------------------
(* Comparison: cmp and the relational operators, on all pairs of small     *)
(* operands in either order.                                               *)

Relations == {"==", "!=", "<", ">", "<=", ">="}

InitCmp == Inputs(Vecs(MaxLen), Vecs(MaxLenY))

\* the operands are taken in either order; val is what the call returned
Compared(o, k, a, b, v) ==
    /\ op = "init"
    /\ op' = o
    /\ n' = k
    /\ x' = a
    /\ y' = b
    /\ val' = v
    /\ UNCHANGED <<alias, res, aux, ub>>

DoCmp ==
    \/ Compared("cmp", 0, x, y, cmp(x, y))
    \/ Compared("cmp", 1, y, x, cmp(y, x))

DoRelational ==
    \E r \in Relations :
        \/ Compared(r, 0, x, y, relational(r, x, y))
        \/ Compared(r, 1, y, x, relational(r, y, x))

NextCmp == DoCmp \/ DoRelational

SpecCmp == InitCmp /\ [][NextCmp]_vars

\* the indices up to max(deg(a), deg(b)) at which a and b differ
Differing(a, b) == {i \in 0 .. Max(DegreeOf(a), DegreeOf(b)) : at(a, i) # at(b, i)}

\* the sign of the comparison at the highest differing index, 0 if none
SignAtTop(a, b) ==
    IF Differing(a, b) = {} THEN 0
    ELSE LET h == CHOOSE i \in Differing(a, b) : \A j \in Differing(a, b) : j <= i
         IN  IF at(a, h) < at(b, h) THEN -1 ELSE 1

\* C11: cmp(p1, p2) is the sign of the comparison of p1[i] with p2[i] at the
\* highest index i in 0 .. max(deg(p1), deg(p2)) where they differ, missing
\* coefficients read as zero, and 0 when none differs; each of the six
\* relational operators is cmp compared to 0, so that == holds exactly when
\* the two agree at every index, whatever their storage sizes.
C11_Cmp ==
    /\ op = "cmp" => val = SignAtTop(x, y)
    /\ op = "==" => val = (SignAtTop(x, y) = 0)
    /\ op = "!=" => val = (SignAtTop(x, y) # 0)
    /\ op = "<" => val = (SignAtTop(x, y) < 0)
    /\ op = ">" => val = (SignAtTop(x, y) > 0)
    /\ op = "<=" => val = (SignAtTop(x, y) <= 0)
    /\ op = ">=" => val = (SignAtTop(x, y) >= 0)
    /\ op = "==" =>
        val = (\A i \in 0 .. Max(size(x), size(y)) : at(x, i) = at(y, i))

\* the top coefficients differ one way and the lowest the other way, the
\* shorter operand having storage above its degree
C11_Witness ==
    /\ op = "cmp"
    /\ x = <<1, 0>>
    /\ y = <<0, 0, 1>>
    /\ val = -1

---------------------------------------------------------------------------
(* Properties of resize, reserve and shrink_to_fit, checked on Spec.       *)

\* c has k coefficients: those of b at the indices b has, zero above
IsPaddedOrCut(c, b, k) ==
    /\ size(c) = k
    /\ \A i \in 0 .. (k - 1) : c[i + 1] = at(b, i)

\* C12: reserve(sz) only pads with zero and never truncates: size() becomes
\* max(size(), sz) and every stored coefficient stays.  resize(sz) makes
\* size() exactly sz: it pads with zero when sz is above size() and cuts the
\* storage to its first sz coefficients when sz is below.  shrink_to_fit
\* leaves exactly deg() + 1 coefficients, the degree being unchanged.
C12_Sizing ==
    /\ op = "reserve" =>
        (size(res) >= size(x) /\ IsPaddedOrCut(res, x, Max(size(x), n)))
    /\ op = "resize" => IsPaddedOrCut(res, x, n)
    /\ op = "shrink_to_fit" =>
        (IsPaddedOrCut(res, x, DegreeOf(x) + 1) /\ DegreeOf(res) = DegreeOf(x))

\* a resize below size() that removed a coefficient that was not zero
C12_Witness ==
    /\ op = "resize"
    /\ size(x) = 3
    /\ x[3] # 0
    /\ n = 1
    /\ size(res) = 1
    /\ res[1] = x[1]

\* C12 as stated: after resize(sz) and after reserve(sz), size() is at
\* least what it was and every stored coefficient is unchanged; only
\* shrink_to_fit removes coefficients, leaving deg() + 1 of them.
C12_AsStated ==
    /\ op \in {"resize", "reserve"} =>
        /\ size(res) >= size(x)
        /\ \A i \in 1 .. size(x) : res[i] = x[i]
    /\ op = "shrink_to_fit" => size(res) = DegreeOf(x) + 1

---------------------------------------------------------------------------
(* Properties of evaluation and of the degree of a product, on SpecMul.    *)

RECURSIVE Power(_, _)
Power(b, e) == IF e = 0 THEN 1 ELSE b * Power(b, e - 1)

\* the sum of c[i] * pt^i over the indices i <= k of the storage
RECURSIVE ValueAt(_, _, _)
ValueAt(c, pt, k) ==
    IF k < 0 THEN 0 ELSE at(c, k) * Power(pt, k) + ValueAt(c, pt, k - 1)

\* C13: for all polynomials a, b and every point x of the ring,
\* (a * b).eval(x) = a.eval(x) * b.eval(x), eval being the Horner loop from
\* deg() down to 0, which gives the sum of c[i] * x^i.
C13_EvalOfProduct ==
    op = "eval_product" =>
        /\ val = eval(x, n) * eval(y, n)
        /\ val = ValueAt(x, n, size(x)) * ValueAt(y, n, size(y))

\* (2 - x^2 + 2 x^3) * (1 - x + x^2) at x = -2
C13_Witness ==
    /\ op = "eval_product"
    /\ x = <<2, 0, -1, 2>>
    /\ y = <<1, -1, 1>>
    /\ n = -2
    /\ val = -126

\* C14: when the leading coefficients of a and b are not zero (the ring of
\* integers has no zero divisors), deg(a * b) = deg(a) + deg(b); the product
\* is taken with the default lr, by mul or by operator*.
C14_DegreeOfProduct ==
    ((op = "mul" /\ n < 0) \/ op = "eval_product") =>
        (leading_coeff(x) # 0 /\ leading_coeff(y) # 0 =>
            /\ deg(res) = deg(x) + deg(y)
            /\ DegreeOf(res) = DegreeOf(x) + DegreeOf(y)
            /\ size(res) = DegreeOf(x) + DegreeOf(y) + 1
            /\ leading_coeff(res) = leading_coeff(x) * leading_coeff(y))

\* (2 - x^2 + 2 x^3) * (1 - x + x^2) has degree 5
C14_Witness ==
    /\ op = "mul"
    /\ n < 0
    /\ x = <<2, 0, -1, 2>>
    /\ y = <<1, -1, 1>>
    /\ deg(res) = 5
    /\ res[6] = 2

---------------------------------------------------------------------------
(* Degenerate inputs of inverse, div and mod; val counts the ring          *)
(* divisions the call evaluated.                                           *)

\* C15: for a polynomial p whose constant term is zero, p.inverse(L) returns
\* the zero polynomial (a single zero coefficient) without performing any
\* division, and p is unchanged.  The constant term of p is p.at(0), which is
\* zero also when p has no stored coefficient.
C15_ZeroConstantTerm ==
    (op = "inverse" /\ at(x, 0) = ZERO_COEFF) =>
        /\ ~ub
        /\ res = <<ZERO_COEFF>>
        /\ val = 0

\* the call on a polynomial without storage reads c[0] of an empty vector
C15_Witness ==
    /\ op = "inverse"
    /\ x = <<>>
    /\ ub

\* the part of C15 about polynomials that store their constant term
C15_StoredConstantTerm ==
    (op = "inverse" /\ size(x) > 0 /\ x[1] = ZERO_COEFF) =>
        /\ ~ub
        /\ res = <<ZERO_COEFF>>
        /\ val = 0

\* C16 (amended): when deg(p1) < deg(p2), div leaves pr empty and evaluates
\* no ring division; mod leaves pr holding exactly p1's coefficients and
\* evaluates exactly one ring division, id_coeff / p2[deg(p2)] of quot_rem's
\* invertibility test, none of them on a coefficient of pr.
C16_ShortDividend ==
    (op \in {"div", "mod"} /\ deg(x) < deg(y)) =>
        /\ ~ub
        /\ op = "div" => (size(res) = 0 /\ val = 0)
        /\ op = "mod" => (size(res) = size(x) /\ SameCoefficients(res, x) /\ val = 1)

\* 1 % (1 + 2 x): the leading coefficient 2 is not invertible
C16_Witness ==
    /\ op = "mod"
    /\ x = <<1>>
    /\ y = <<1, 2>>
    /\ res = <<1>>
    /\ val = 1

\* C16 as stated: when deg(p1) < deg(p2), div leaves pr empty, mod leaves pr
\* holding exactly p1's coefficients, and in both cases no ring division is
\* performed on any coefficient.
C16_AsStated ==
    (op \in {"div", "mod"} /\ deg(x) < deg(y)) =>
        /\ ~ub
        /\ op = "div" => size(res) = 0
        /\ op = "mod" => (size(res) = size(x) /\ SameCoefficients(res, x))
        /\ val = 0

---------------------------------------------------------------------------
(* Properties of the transforms, on SpecFft.                               *)

IsPowerOfTwo(k) == \E j \in 0 .. k : 2 ^ j = k

\* b^e in the ring, one factor at a time
RECURSIVE PowerMod(_, _)
PowerMod(b, e) == IF e = 0 THEN 1 ELSE (b * PowerMod(b, e - 1)) % FFT_MODULUS

\* w has multiplicative order exactly k
IsPrincipalRoot(w, k) ==
    /\ PowerMod(w, k) = 1
    /\ \A j \in 1 .. (k - 1) : PowerMod(w, j) # 1

\* the sum over j in 0 .. m of c[j] * (w^k)^j, in the ring
RECURSIVE DftSum(_, _, _, _)
DftSum(c, w, k, m) ==
    IF m < 0 THEN 0
    ELSE (c[m + 1] * PowerMod(PowerMod(w, k), m) + DftSum(c, w, k, m - 1))
         % FFT_MODULUS

\* the sum over i in 0 .. m of a[i] * b[(k - i) mod size], in the ring
RECURSIVE CyclicSum(_, _, _, _)
CyclicSum(a, b, k, m) ==
    IF m < 0 THEN 0
    ELSE (a[m + 1] * b[((k - m + Len(b)) % Len(b)) + 1] + CyclicSum(a, b, k, m - 1))
         % FFT_MODULUS

\* C17: fft(data, size, root) called with a positive size that is not a
\* power of two performs no transform: every element of data is unchanged.
C17_NotPowerOfTwo ==
    (op = "fft" /\ ~IsPowerOfTwo(n)) => SameCoefficients(res, x)

C17_Witness ==
    /\ op = "fft"
    /\ n = 6
    /\ x = <<3, 1, 4, 1, 5, 9>>
    /\ res = <<3, 1, 4, 1, 5, 9>>

\* C18: for every array of power-of-two length N and principal N-th root of
\* unity w (N invertible in the ring), the transform with root w followed by
\* the transform with root w^(N-1) and the division of every element by N
\* gives back the array, for fft and for fft_rec.
C18_RoundTrip ==
    (op \in {"fft_inverse", "fft_rec_inverse"}
        /\ IsPowerOfTwo(n) /\ IsPrincipalRoot(val, n)) =>
        SameCoefficients(res, x)

C18_Witness ==
    /\ op = "fft_rec_inverse"
    /\ n = 8
    /\ val = 2
    /\ x = <<1, 2, 3, 4, 5, 6, 7, 8>>
    /\ res = <<1, 2, 3, 4, 5, 6, 7, 8>>
    /\ aux[1] = 2
    /\ aux # x

\* C19: for an array of power-of-two length N and a principal N-th root of
\* unity root, the iterative fft leaves data[k] = sum over j in 0 .. N-1 of
\* x[j] * root^(j * k) for every k, in natural index order.
C19_NaturalOrder ==
    (op = "fft" /\ IsPowerOfTwo(n) /\ IsPrincipalRoot(val, n)) =>
        \A k \in 0 .. (n - 1) : res[k + 1] = DftSum(x, val, k, n - 1)

C19_Witness ==
    /\ op = "fft"
    /\ n = 8
    /\ val = 2
    /\ x = <<1, 2, 3, 4, 5, 6, 7, 8>>
    /\ res[1] = 2
    /\ res[2] = DftSum(x, 2, 1, 7)
    /\ res[2] # res[5]

\* C20: fft_cyclic_convolution, for size a power of two dividing root_order
\* and root_base a principal root of unity of order root_order, leaves in
\* the caller's dataR array dataR[k] = sum over i in 0 .. size-1 of
\* data1[i] * data2[(k - i) mod size], from the original data1 and data2.
C20_CyclicConvolution ==
    (op = "fft_cyclic_convolution" /\ IsPrincipalRoot(val, n)) =>
        /\ Len(res) = Len(x)
        /\ \A k \in 0 .. (Len(x) - 1) : res[k + 1] = CyclicSum(x, y, k, Len(x) - 1)

\* 1..8 convolved with the unit vector at index 1 is 1..8 rotated by one
C20_Witness ==
    /\ op = "fft_cyclic_convolution"
    /\ n = 16
    /\ val = 3
    /\ x = <<1, 2, 3, 4, 5, 6, 7, 8>>
    /\ y = <<0, 1, 0, 0, 0, 0, 0, 0>>
    /\ res = <<8, 1, 2, 3, 4, 5, 6, 7>>

\* C28: for a source of a size N that is a power of two and a principal
\* N-th root of unity, fft_rec(dest, src, N, root) writes into dest what the
\* in-place fft makes of the same input with the same root, and src holds
\* after the call what it held before.
C28_FftRecIsFft ==
    (op = "fft_rec" /\ IsPowerOfTwo(n) /\ IsPrincipalRoot(val, n)) =>
        /\ res = fft(x, n, val)
        /\ \A k \in 0 .. n - 1 : res[k + 1] = DftSum(x, val, k, n - 1)
        /\ aux = x

\* a source of eight distinct elements, its transform with the root 2
C28_Witness ==
    /\ op = "fft_rec"
    /\ x = <<1, 2, 3, 4, 5, 6, 7, 8>>
    /\ val = 2
    /\ res = fft(x, 8, 2)
    /\ res # x
    /\ aux = x

---------------------------------------------------------------------------
(* Properties of the vector convolutions, on SpecConv.                     *)

\* c[i] for 0 <= i < Len(c), zero outside
Padded(c, i) == IF 0 <= i /\ i < Len(c) THEN c[i + 1] ELSE 0

\* the sum over i in 0 .. m of u[i] * v[k - i], in the ring
RECURSIVE LinearSum(_, _, _, _)
LinearSum(u, v, k, m) ==
    IF m < 0 THEN 0
    ELSE (u[m + 1] * Padded(v, k - m) + LinearSum(u, v, k, m - 1)) % FFT_MODULUS

\* C21: convolution(u, v, root_base, root_order) for non-empty u and v
\* returns exactly len(u) + len(v) - 1 elements, r[k] being the sum over i of
\* u[i] * v[k - i] with indices outside the inputs contributing zero.
C21_Convolution ==
    (op = "convolution" /\ IsPrincipalRoot(val, n)) =>
        /\ Len(res) = Len(x) + Len(y) - 1
        /\ \A k \in 0 .. (Len(res) - 1) : res[k + 1] = LinearSum(x, y, k, Len(x) - 1)

\* (1 + 2t + 3t^2 + 4t^3 + 5t^4) * (2 + 7t^3 + t^4 + 3t^5), padded to 16
C21_Witness ==
    /\ op = "convolution"
    /\ x = <<1, 2, 3, 4, 5>>
    /\ y = <<2, 0, 0, 7, 1, 3>>
    /\ n = 16
    /\ Len(res) = 10
    /\ res[1] = 2
    /\ res[10] = 15

\* C22: cyclic_convolution(u, v, root_base, root_order) with kernel u and
\* cyclic list v, both non-empty and of any relative lengths, returns exactly
\* len(u) + len(v) - 1 elements, r[k] being the sum over j in 0 .. len(u)-1
\* of u[j] * v[(k - j) mod len(v)].
C22_CyclicConvolution ==
    (op = "cyclic_convolution" /\ IsPrincipalRoot(val, n)) =>
        /\ Len(res) = Len(x) + Len(y) - 1
        /\ \A k \in 0 .. (Len(res) - 1) : res[k + 1] = CyclicSum(x, y, k, Len(x) - 1)

\* a kernel of five elements over a cyclic list of three
C22_Witness ==
    /\ op = "cyclic_convolution"
    /\ x = <<1, 2, 3, 4, 5>>
    /\ y = <<1, 0, 16>>
    /\ Len(res) = 7
    /\ res[1] = CyclicSum(x, y, 0, 4)
    /\ res[1] # res[2]

---------------------------------------------------------------------------
(* Properties of chinese_remainder, on SpecCrt.                            *)

\* the common divisors of a and b, and their largest
Gcd(a, b) == CHOOSE d \in 1 .. a : a % d = 0 /\ b % d = 0
                 /\ \A e \in 1 .. a : (a % e = 0 /\ b % e = 0) => e <= d

Lcm(a, b) == CHOOSE l \in 1 .. a * b : l % a = 0 /\ l % b = 0
                 /\ \A e \in 1 .. a * b : (e % a = 0 /\ e % b = 0) => l <= e

\* a1 and a2 are congruent modulo k
Congruent(a1, a2, k) == a1 % k = a2 % k

\* a and k are what the theory asks of the residues <<a1, n1>>, <<a2, n2>>
Solves(a, k, r1, r2) ==
    /\ k = Lcm(r1[2], r2[2])
    /\ 0 <= a /\ a < k
    /\ a % r1[2] = r1[1]
    /\ a % r2[2] = r2[1]

\* C23: for positive moduli and residues 0 <= a1 < n1, 0 <= a2 < n2,
\* chinese_remainder leaves n = lcm(n1, n2), 0 <= a < n, a % n1 = a1 and
\* a % n2 = a2 when a1 and a2 are congruent modulo gcd(n1, n2), and
\* a = 0, n = 0 when they are not; the overload that returns a returns
\* that a.
C23_ChineseRemainder ==
    /\ op \in {"chinese_remainder", "chinese_remainder_in_place"} =>
           IF Congruent(x[1], y[1], Gcd(x[2], y[2]))
           THEN Solves(res[1], res[2], x, y)
           ELSE res = <<0, 0>>
    /\ op = "chinese_remainder_value" =>
           IF Congruent(x[1], y[1], Gcd(x[2], y[2]))
           THEN Solves(val, Lcm(x[2], y[2]), x, y)
           ELSE val = 0

\* moduli 10 and 4 share the factor 2 and 7, 1 are both odd: a = 17, n = 20
C23_Witness ==
    /\ op = "chinese_remainder"
    /\ x = <<7, 10>> /\ y = <<1, 4>>
    /\ res = <<17, 20>>

---------------------------------------------------------------------------
(* Properties of the calls of multiplication, on SpecCalls.                *)

\* C24: every call of polynom_mul<T>::impl that _mul makes, at the top and
\* below _mul_karatsuba, has 0 <= l2 <= l1 <= lr <= l1 + l2, and _mul has
\* zeroed pr[l1 + l2 + 1 .. lr'] before it, lr' being the lr _mul received.
C24_ImplLengths ==
    op = "impl" =>
        /\ 0 <= x[3] /\ x[3] <= x[2] /\ x[2] <= x[1] /\ x[1] <= x[2] + x[3]
        /\ \A i \in 0 .. y[1] : (i \in aux) = (i > x[2] + x[3])

\* a call three levels down, for a truncated product, whose l1 and l2 _mul
\* had to cut to lr
C24_Witness ==
    /\ op = "impl"
    /\ n = 3
    /\ x[2] < y[2] /\ x[3] < y[3]
    /\ x[1] < x[2] + x[3]

\* an access stays in what the routine was given or has allocated
InBounds(a) == a[3] <= a[4] => (0 <= a[3] /\ a[4] <= a[5])

\* C25: _mul_long and _mul_karatsuba at every level, called with
\* 0 <= l2 <= l1 <= lr <= l1 + l2, write pr only up to lr, read p1 only up
\* to l1 and p2 only up to l2, and use S1, S2, MM and HH only within the k,
\* k, mm_l + 1 (or lr - k + 1) and hh_l + 1 elements allocated.
C25_Truncation ==
    op \in {"_mul_long", "_mul_karatsuba"} =>
        \A a \in res : InBounds(a) /\ (a[2] \in {"S1", "S2", "MM", "HH"} => a[5] >= -1)

\* the three-product branch two levels down with a truncated lr
C25_Witness ==
    /\ op = "_mul_karatsuba"
    /\ n = 2
    /\ x[3] >= (x[2] \div 2) + 1
    /\ x[1] < x[2] + x[3]
    /\ \E a \in res : a[2] = "HH" /\ a[1] = 156 /\ a[3] <= a[4]

---------------------------------------------------------------------------
(* Properties of the loop of inverse, on SpecNewton.                       *)

\* the largest j with 2^j <= k, for k >= 1
FloorLog2(k) == CHOOSE j \in 0 .. k : 2 ^ j <= k /\ k < 2 ^ (j + 1)

\* a * b is 1 modulo x^k
IsInverseModulo(a, b, k) ==
    \A i \in 0 .. k - 1 :
        ConvolutionSum(a, b, i, i) = (IF i = 0 THEN id_coeff ELSE ZERO_COEFF)

\* C26: in inverse(L) of a polynomial P with constant term 1, R starts as 1;
\* after the pass with working precision l, P * R is 1 modulo x^min(l, L);
\* R never has a coefficient at an index >= L; and the loop makes at most
\* floor(log2(2L - 1)) + 1 passes, after which the R returned is the one
\* inverse(L) returns.
C26_NewtonInvariant ==
    op \in {"inverse_loop", "inverse_returned"} =>
        /\ aux[2] = 0 => res = <<id_coeff>>
        /\ aux[2] > 0 => IsInverseModulo(x, res, Min(aux[1], n))
        /\ size(res) <= n
        /\ aux[2] <= FloorLog2(2 * n - 1) + 1
        /\ op = "inverse_returned" => res = inverse(x, n)

\* 1 - x + x^4 + x^5 to precision 5, after the fourth and last pass (l = 8)
C26_Witness ==
    /\ op = "inverse_loop"
    /\ x = <<1, -1, 0, 0, 1, 1>>
    /\ n = 5
    /\ aux = <<8, 4>>
    /\ res = <<1, 1, 1, 1, 0>>

---------------------------------------------------------------------------
(* Properties of fraction, on SpecFraction.                                *)

\* no d >= 2 divides both a and b
Coprime(a, b) == \A d \in 2 .. Max(Abs(a), Abs(b)) : ~(a % d = 0 /\ b % d = 0)

\* C29: a fraction constructed from (p, q) with q # 0, and what the
\* operators +=, -=, *=, /=, %=, +, -, *, / (dividing by fractions that are
\* not zero) store, is in lowest terms with a positive denominator:
\* gcd(|p|, q) = 1 and q > 0; fraction(6, 4) is 3/2 and zero is 0/1.
C29_NormalForm ==
    op # "init" =>
        /\ res[2] > 0
        /\ Coprime(Abs(res[1]), res[2])
        /\ (op = "fraction" /\ x = <<6, 4>>) => res = <<3, 2>>
        /\ (op = "fraction" /\ x[1] = 0) => res = <<0, 1>>
        /\ op = "fraction" => res[1] * x[2] = x[1] * res[2]

\* 6/-4 is stored as -3/2; divided by -2/3 it is 9/4, and 9/4 /= 9/4 is 1/1
C29_Witness ==
    /\ op = "/="
    /\ x = <<6, -4>>
    /\ n = 2
    /\ alias = "p1"
    /\ y = <<9, 4>>
    /\ res = <<1, 1>>

---------------------------------------------------------------------------
(* Properties of the rank of a matrix, on SpecMatrix.                      *)

\* the determinant, in the ring, of the rows r and the columns c chosen
\* from a (r and c tuples of one, two or three indices)
RECURSIVE Minor(_, _, _)
Minor(a, r, c) ==
    IF Len(r) = 1 THEN a[r[1]][c[1]]
    ELSE IF Len(r) = 2
    THEN (a[r[1]][c[1]] * a[r[2]][c[2]]
          + FFT_MODULUS * FFT_MODULUS - a[r[1]][c[2]] * a[r[2]][c[1]]) % FFT_MODULUS
    ELSE (a[r[1]][c[1]] * Minor(a, <<r[2], r[3]>>, <<c[2], c[3]>>)
          + (FFT_MODULUS - a[r[1]][c[2]]) * Minor(a, <<r[2], r[3]>>, <<c[1], c[3]>>)
          + a[r[1]][c[3]] * Minor(a, <<r[2], r[3]>>, <<c[1], c[2]>>)) % FFT_MODULUS

\* the increasing tuples of k indices of 1 .. m
Choices(k, m) ==
    {t \in [1 .. k -> 1 .. m] : \A i \in 1 .. k - 1 : t[i] < t[i + 1]}

\* the rank of linear algebra: the size of the largest minor that is not
\* zero, which is the number of linearly independent rows
LinearRank(a) ==
    CHOOSE k \in 0 .. Len(a) :
        /\ k > 0 => \E r \in Choices(k, Len(a)), c \in Choices(k, Len(a)) :
                        Minor(a, r, c) # 0
        /\ \A l \in (k + 1) .. Len(a) :
               \A r \in Choices(l, Len(a)), c \in Choices(l, Len(a)) :
                   Minor(a, r, c) = 0

\* C30: for every square matrix over a field, rank() is the rank of linear
\* algebra, the number of linearly independent rows, also for a singular
\* matrix with a zero column before a column that has a pivot.
C30_Rank == op = "rank" => val = LinearRank(x)

\* the matrix with the rows (0,1,0), (0,0,1), (0,0,0) has two independent
\* rows, and rank() returns 1
C30_Witness ==
    /\ op = "rank"
    /\ x = <<<<0, 1, 0>>, <<0, 0, 1>>, <<0, 0, 0>>>>
    /\ LinearRank(x) = 2
    /\ val = 1

\* what the code does keep: rank() of a regular matrix is its number of
\* rows, and rank() of the zero matrix is 0
C30_RegularRank ==
    op = "rank" =>
        /\ LinearRank(x) = n => val = n
        /\ LinearRank(x) = 0 => val = 0


=============================================================================
